---- MODULE Spec2Model ----
(***************************************************************************)
(* A model of src/app.py, the Streamlit "Personal Finance Checkup" script. *)
(* One user interaction triggers one run of the whole script: top summary, *)
(* TAB1 (register), TAB2 (list/select), TAB3 (finance editors, saves),     *)
(* TAB4 (pie charts).  st.rerun() ends the run and starts a plain one.     *)
(*                                                                         *)
(* JSON values are modelled by what Python does with them:                 *)
(*   amount   [t, v]: t = "num" (a finite float, v its value), "nan"       *)
(*            (json NaN), "str" (a non-numeric string), "missing" (no key) *)
(*   date     [t, y, m, d]: t = "date" (an ISO date), "none" (absent or    *)
(*            empty), "bad" (a string pd.to_datetime rejects)              *)
(*   category a sequence of one-character strings                          *)
(* The desc column of income/expense rows takes no part in any sum, filter *)
(* or chart and is left out of the rows.                                   *)
(***************************************************************************)
EXTENDS Integers, Sequences, FiniteSets, TLC

\* ------------------------------------------------------------------ bounds
\* Rows in one edited table, and in one stored section.
MaxRows == 2
\* Rows in one stored book, all four sections together.
MaxBookRows == 2
\* Largest Etc value the user types.
MaxEtc == 1
\* Rows per section, and the largest amount, of the books whose mix is drawn.
MaxMixRows == 2
MaxMixAmount == 4
\* Rows of a book in the specifications about deleting and about Etc.
MaxOwnRows == 1
\* Characters of a text handed to atomic_write.
MaxText == 2
MaxWork == 7
MaxTyped == 1

\* ------------------------------------------------------------------ values
\* The element of a one-element set: One({F(x) : x \in {e}}) is F(e) with e
\* evaluated once, the way a Python local variable holds its value.
One(S) == CHOOSE x \in S : TRUE

Num(n) == [t |-> "num", v |-> n]
NaN == [t |-> "nan", v |-> 0]
StrAmt == [t |-> "str", v |-> 0]
NoAmt == [t |-> "missing", v |-> 0]
\* The outcome of an evaluation that raised.
Raised == [t |-> "raise", v |-> 0]

IsNum(a) == a.t = "num"

\* Python float arithmetic and comparison (NaN propagates, compares false).
FAdd(a, b) == IF a.t = "nan" \/ b.t = "nan" THEN NaN ELSE Num(a.v + b.v)
FSub(a, b) == IF a.t = "nan" \/ b.t = "nan" THEN NaN ELSE Num(a.v - b.v)
FGt(a, b) == IsNum(a) /\ IsNum(b) /\ a.v > b.v
FLt(a, b) == IsNum(a) /\ IsNum(b) /\ a.v < b.v

\* A max that always yields its first argument.
PyMaxNoFloor(a, b) == a

\* Python's max(a, b): b only when b > a.
PyMax(a, b) == IF FGt(b, a) THEN b ELSE a

\* bool(x) of a float or a non-empty string.
Truthy(a) == ~(IsNum(a) /\ a.v = 0)

Date(y, m, d) == [t |-> "date", y |-> y, m |-> m, d |-> d]
NoDate == [t |-> "none", y |-> 0, m |-> 0, d |-> 0]
BadDate == [t |-> "bad", y |-> 0, m |-> 0, d |-> 0]

\* datetime.date comparison.
DateLt(a, b) ==
    \/ a.y < b.y
    \/ a.y = b.y /\ a.m < b.m
    \/ a.y = b.y /\ a.m = b.m /\ a.d < b.d
DateLe(a, b) == a = b \/ DateLt(a, b)

IsLeap(y) == (y % 4 = 0 /\ y % 100 # 0) \/ y % 400 = 0
DaysInMonth(y, m) ==
    IF m = 2 THEN (IF IsLeap(y) THEN 29 ELSE 28)
    ELSE IF m \in {4, 6, 9, 11} THEN 30 ELSE 31

\* date + timedelta(days=1)
AddOneDay(a) ==
    IF a.d < DaysInMonth(a.y, a.m) THEN Date(a.y, a.m, a.d + 1)
    ELSE IF a.m < 12 THEN Date(a.y, a.m + 1, 1)
    ELSE Date(a.y + 1, 1, 1)

\* ------------------------------------------------------------------ strings
Space == " "
CharCode(c) == CASE c = " " -> 32 [] c = "A" -> 65 [] c = "B" -> 66 [] c = "a" -> 97

RECURSIVE LStrip(_)
LStrip(s) == IF s # <<>> /\ Head(s) = Space THEN LStrip(Tail(s)) ELSE s

RECURSIVE RStrip(_)
RStrip(s) ==
    IF s # <<>> /\ s[Len(s)] = Space THEN RStrip(SubSeq(s, 1, Len(s) - 1)) ELSE s

\* str.strip()
Strip(s) == RStrip(LStrip(s))

\* Python's str < str (code points, then length).
RECURSIVE StrLt(_, _)
StrLt(a, b) ==
    IF b = <<>> THEN FALSE
    ELSE IF a = <<>> THEN TRUE
    ELSE IF CharCode(Head(a)) # CharCode(Head(b)) THEN CharCode(Head(a)) < CharCode(Head(b))
    ELSE StrLt(Tail(a), Tail(b))

\* ------------------------------------------------------------------ books
Sections == {"income_details", "expense_details", "assets", "liabilities"}

Row(c, a, d) == [category |-> c, amount |-> a, date |-> d]

Book(inc, exp, ass, lia, etc) ==
    [income_details |-> inc, expense_details |-> exp, assets |-> ass,
     liabilities |-> lia, etc |-> etc]

_empty_finance == Book(<<>>, <<>>, <<>>, <<>>, Num(0))

NoFile == [absent |-> TRUE]

TotalRows(b) ==
    Len(b.income_details) + Len(b.expense_details) + Len(b.assets) + Len(b.liabilities)

\* ------------------------------------------------------------------ persistence
\* atomic_write(path, text): the file at path holds text afterwards.
atomic_write(fs, c, data) == [fs EXCEPT ![c] = data]

\* A load that leaves a missing file missing.
LoadNoCreate(fs, c) ==
    IF fs[c] = NoFile THEN [data |-> _empty_finance, files |-> fs]
    ELSE [data |-> fs[c], files |-> fs]

\* load_client_finance(client_id): the book returned and the files afterwards.
\* A missing file is created with the empty book.
load_client_finance(fs, c) ==
    IF fs[c] = NoFile
    THEN [data |-> _empty_finance, files |-> atomic_write(fs, c, _empty_finance)]
    ELSE [data |-> fs[c], files |-> fs]

\* save_client_finance(client_id, data)
save_client_finance(fs, c, data) == atomic_write(fs, c, data)

\* ------------------------------------------------------------------ summary
\* x.get("amount", 0.0)
GetAmount(r) == IF r.amount.t = "missing" THEN Num(0) ELSE r.amount

RECURSIVE FoldAdd(_)
FoldAdd(rows) ==
    IF rows = <<>> THEN Num(0)
    ELSE FAdd(GetAmount(Head(rows)), FoldAdd(Tail(rows)))

\* float(sum(x.get("amount", 0.0) for x in rows)): int + str raises TypeError.
SumAmounts(rows) ==
    IF \E i \in DOMAIN rows : rows[i].amount.t = "str" THEN Raised
    ELSE FoldAdd(rows)

NoSummary ==
    [st |-> "none", income |-> Num(0), expense |-> Num(0), remaining |-> Num(0),
     etc |-> Num(0)]

\* income_sum, expense_sum, remaining, etc_val of the rows given
\* (src/app.py:247-250, 779-782, 869-872).
Summarize(inc_rows, exp_rows, etc) ==
    One({ IF income_sum = Raised \/ expense_sum = Raised
          THEN [NoSummary EXCEPT !.st = "raise"]
          ELSE [st |-> "shown", income |-> income_sum, expense |-> expense_sum,
                remaining |-> PyMax(FSub(income_sum, expense_sum), Num(0)),
                etc |-> etc] :
          income_sum \in {SumAmounts(inc_rows)}, expense_sum \in {SumAmounts(exp_rows)} })

\* ------------------------------------------------------------------ period filter
\* start_date, end_date of the period chosen (None, None for "all").
PeriodRange(period, today, cstart, cend) ==
    CASE period = "month" ->
            [start |-> Date(today.y, today.m, 1),
             end |-> IF today.m = 12 THEN Date(today.y + 1, 1, 1)
                     ELSE Date(today.y, today.m + 1, 1)]
      [] period = "year" ->
            [start |-> Date(today.y, 1, 1), end |-> Date(today.y + 1, 1, 1)]
      [] period = "custom" ->
            [start |-> cstart, end |-> AddOneDay(cend)]
      [] OTHER -> [start |-> NoDate, end |-> NoDate]

\* A range that takes its end date in.
InRangeClosedEnd(dt, start, end) == DateLe(start, dt) /\ DateLe(dt, end)

\* start_date <= dt < end_date
InRange(dt, start, end) == DateLe(start, dt) /\ DateLt(dt, end)

Keeps(r, rng) ==
    /\ r.date.t = "date"
    /\ rng.start.t = "date" /\ rng.end.t = "date"
    /\ InRange(r.date, rng.start, rng.end)

filter_rows(rows, period, rng) ==
    IF period = "all" THEN rows
    ELSE SelectSeq(rows, LAMBDA r : Keeps(r, rng))

\* ------------------------------------------------------------------ pie chart
Entry(l, v) == [label |-> l, value |-> v]

NoChart == [kind |-> "none", wedges |-> <<>>, legend |-> <<>>, pcts |-> <<>>]

\* sorted(zip(leg, vals), key=lambda x: x[1], reverse=True): descending by
\* value, equal values in their original order.
RECURSIVE InsertDesc(_, _)
InsertDesc(sorted, e) ==
    IF sorted = <<>> THEN <<e>>
    ELSE IF FLt(Head(sorted).value, e.value) THEN <<e>> \o sorted
    ELSE <<Head(sorted)>> \o InsertDesc(Tail(sorted), e)

\* A descending sort that puts an entry before the entries of equal value.
RECURSIVE InsertDescUnstable(_, _)
InsertDescUnstable(sorted, e) ==
    IF sorted = <<>> THEN <<e>>
    ELSE IF ~FGt(Head(sorted).value, e.value) THEN <<e>> \o sorted
    ELSE <<Head(sorted)>> \o InsertDescUnstable(Tail(sorted), e)

RECURSIVE SortDescFrom(_, _)
SortDescFrom(done, rest) ==
    IF rest = <<>> THEN done
    ELSE One({ SortDescFrom(d, Tail(rest)) : d \in {InsertDesc(done, Head(rest))} })

RECURSIVE SortDescUnstableFrom(_, _)
SortDescUnstableFrom(done, rest) ==
    IF rest = <<>> THEN done
    ELSE One({ SortDescUnstableFrom(d, Tail(rest)) :
               d \in {InsertDescUnstable(done, Head(rest))} })

LegendUnstable(entries) == SortDescUnstableFrom(<<>>, entries)

\* The legend lines, in the order written.
Legend(entries) == SortDescFrom(<<>>, entries)

\* A filter that keeps every entry.
KeepAll(entries) == entries

\* [(v, l) for v, l in zip(values, labels) if v > 0]
Positive(entries) == SelectSeq(entries, LAMBDA e : FGt(e.value, Num(0)))

\* ax.pie(vals, startangle=90): one wedge per value, in the order given.
Wedges(entries) == entries

\* The sum of the values of the entries (all of them numbers).
RECURSIVE SumValues(_)
SumValues(entries) ==
    IF entries = <<>> THEN 0
    ELSE Head(entries).value.v + SumValues(Tail(entries))

\* n / d cut down to a whole number.
FloorDiv(n, d) == n \div d

\* n / d rounded to the nearest whole number, a tie to the even one, as
\* f"{p:.1f}" rounds the tenths of a percentage.
RoundDiv(n, d) ==
    IF 2 * (n % d) > d THEN (n \div d) + 1
    ELSE IF 2 * (n % d) < d THEN n \div d
    ELSE (n \div d) + ((n \div d) % 2)

\* The percentage of each wedge: ax.pie divides each value by the sum of the
\* values it is given and autopct gets 100 * fraction; num / den is that
\* percentage unrounded, tenths the text f"{p:.1f}%" shows, in tenths.
Percents(entries) ==
    One({ [i \in DOMAIN entries |->
              [num |-> 100 * entries[i].value.v, den |-> total,
               tenths |-> RoundDiv(1000 * entries[i].value.v, total)]] :
          total \in {SumValues(entries)} })

\* draw_pie(values, labels_for_legend, title).  kind is "pie" (wedges and
\* legend drawn), "empty" (the empty titled figure of the else branch) or
\* "raise" (v > 0 on a string, or the two-name unpacking of an empty zip).
draw_pie(entries) ==
    IF \E i \in DOMAIN entries : Truthy(entries[i].value)
    THEN IF \E i \in DOMAIN entries : entries[i].value.t = "str"
         THEN [NoChart EXCEPT !.kind = "raise"]
         ELSE One({ IF kept = <<>> THEN [NoChart EXCEPT !.kind = "raise"]
                    ELSE [kind |-> "pie", wedges |-> Wedges(kept),
                          legend |-> Legend(kept), pcts |-> Percents(kept)] :
                    kept \in {Positive(entries)} })
    ELSE [NoChart EXCEPT !.kind = "empty"]

\* ------------------------------------------------------------------ category totals
CategoriesOf(rows) == {rows[i].category : i \in DOMAIN rows}

\* The group keys in the order groupby yields them (sorted).
RECURSIVE SortedKeys(_)
SortedKeys(S) ==
    IF S = {} THEN <<>>
    ELSE LET least == CHOOSE c \in S : \A d \in S \ {c} : StrLt(c, d)
         IN  <<least>> \o SortedKeys(S \ {least})

\* A total that takes only the first amount of the category.
RECURSIVE GroupFirst(_, _)
GroupFirst(rows, cat) ==
    IF rows = <<>> THEN 0
    ELSE IF Head(rows).category = cat /\ IsNum(Head(rows).amount)
         THEN Head(rows).amount.v
         ELSE GroupFirst(Tail(rows), cat)

\* Series.sum() of one group: NaN and absent amounts are skipped.
RECURSIVE GroupTotal(_, _)
GroupTotal(rows, cat) ==
    IF rows = <<>> THEN 0
    ELSE (IF Head(rows).category = cat /\ IsNum(Head(rows).amount)
          THEN Head(rows).amount.v ELSE 0) + GroupTotal(Tail(rows), cat)

\* df.groupby("category", dropna=False)["amount"].sum().reset_index(), as the
\* (category, total) entries handed to draw_pie.
Grouped(rows) ==
    One({ [i \in DOMAIN keys |-> Entry(keys[i], Num(GroupTotal(rows, keys[i])))] :
          keys \in {SortedKeys(CategoriesOf(rows))} })

\* A string amount fails in the sum or in draw_pie's v > 0; a frame with no
\* amount column at all fails in ["amount"].
GroupRaises(rows) ==
    \/ \E i \in DOMAIN rows : rows[i].amount.t = "str"
    \/ \A i \in DOMAIN rows : rows[i].amount.t = "missing"

\* The assets / liabilities block of TAB4 (src/app.py:877-895): the rows after
\* the period filter, the grouped totals and what is drawn.  kind "info" is
\* the st.info placeholder.
NoBlock == [rows |-> <<>>, totals |-> <<>>, chart |-> NoChart]

CategoryBlock(rows) ==
    IF rows = <<>>
    THEN [rows |-> rows, totals |-> <<>>, chart |-> [NoChart EXCEPT !.kind = "info"]]
    ELSE IF GroupRaises(rows)
    THEN [rows |-> rows, totals |-> <<>>, chart |-> [NoChart EXCEPT !.kind = "raise"]]
    ELSE One({ [rows |-> rows, totals |-> g, chart |-> draw_pie(g)] :
               g \in {Grouped(rows)} })

\* ------------------------------------------------------------------ editor tables
\* _df_from_rows: a stored row as the data editor shows it.  An absent amount
\* is a NaN cell, an absent or unparseable date a blank (NaT) cell.
DfRow(r) ==
    Row(r.category,
        IF r.amount.t = "missing" THEN NaN ELSE r.amount,
        IF r.date.t = "date" THEN r.date ELSE NoDate)
_df_from_rows(rows) == [i \in DOMAIN rows |-> DfRow(rows[i])]

\* A validation that does not look at the sign.
AmountErrorNoSign(a) == a.t = "str"

\* float(r.get("amount", 0)) raised, or the amount is negative.
AmountError(a) == a.t = "str" \/ FLt(a, Num(0))

\* One row of clean_rows: category stripped, date as ISO text (a blank date
\* was filled with today).
CleanRow(r, today) ==
    Row(Strip(r.category), r.amount, IF r.date.t = "date" THEN r.date ELSE today)

\* Rows with an empty category are skipped before any check.
HasCategory(r) == Strip(r.category) # <<>>

\* _clean_and_validate_df(title, edited, has_desc): clean_rows, whether errs
\* is non-empty, and the rows of the editor the messages of errs name.
_clean_and_validate_df(edited, today) ==
    One({ [rows |-> [i \in DOMAIN good |-> CleanRow(good[i], today)],
           errs |-> \E i \in DOMAIN named : AmountError(named[i].amount),
           bad |-> {i \in DOMAIN edited :
                       HasCategory(edited[i]) /\ AmountError(edited[i].amount)}] :
          named \in {SelectSeq(edited, HasCategory)},
          good \in {SelectSeq(SelectSeq(edited, HasCategory),
                              LAMBDA r : ~AmountError(r.amount))} })

\* The rows compared as Python lists: a NaN amount equals nothing.
RowsEqualByValue(a, b) == a = b /\ \A i \in DOMAIN a : a[i].amount # NaN

\* _rows_equal(a, b): equal JSON text (NaN prints as NaN on both sides).
_rows_equal(a, b) == a = b

\* ------------------------------------------------------------------ the script
ClientIds == {"c1"}
None == "none"

SectionOrder == <<"income_details", "expense_details", "assets", "liabilities">>

\* What the user did to trigger the run.
Event(kind, c, sec, table, n) == [kind |-> kind, c |-> c, sec |-> sec, table |-> table, n |-> n]
NoEvent == Event("none", None, "", <<>>, 0)

InList(cl, c) == \E i \in DOMAIN cl : cl[i] = c

\* Top summary (src/app.py:243-257).
TopSummary(cl, fs, sel) ==
    IF sel # None /\ InList(cl, sel)
    THEN One({ [files |-> ld.files,
                out |-> Summarize(ld.data.income_details, ld.data.expense_details,
                                  ld.data.etc)] :
               ld \in {load_client_finance(fs, sel)} })
    ELSE [files |-> fs, out |-> NoSummary]

\* A message box listing the rows of section sec that were refused.
Warning(how, sec, cv) == [how |-> how, sec |-> sec, rows |-> cv.bad]

\* The autosave block of editor_section (src/app.py:738-746).
AutosaveBlock(acc, sec, cv, autosave, sel) ==
    IF autosave /\ ~cv.errs /\ ~_rows_equal(cv.rows, acc.finance[sec])
    THEN [acc EXCEPT !.finance = [acc.finance EXCEPT ![sec] = cv.rows],
                     !.files = save_client_finance(
                                   acc.files, sel, [acc.finance EXCEPT ![sec] = cv.rows])]
    ELSE IF autosave /\ cv.errs
    THEN [acc EXCEPT !.warn = @ \cup {Warning("autosave", sec, cv)}]
    ELSE acc

\* A save button that writes the rows that passed, whatever errs holds.
SaveButtonDespiteErrors(acc, sec, cv, clicked, sel) ==
    IF clicked
    THEN [acc EXCEPT !.finance = [acc.finance EXCEPT ![sec] = cv.rows],
                     !.files = save_client_finance(
                                   acc.files, sel, [acc.finance EXCEPT ![sec] = cv.rows]),
                     !.rerun = TRUE]
    ELSE acc

\* The manual save button of editor_section (src/app.py:749-757).
SaveButton(acc, sec, cv, clicked, sel) ==
    IF clicked /\ ~cv.errs
    THEN [acc EXCEPT !.finance = [acc.finance EXCEPT ![sec] = cv.rows],
                     !.files = save_client_finance(
                                   acc.files, sel, [acc.finance EXCEPT ![sec] = cv.rows]),
                     !.rerun = TRUE]
    ELSE IF clicked
    THEN [acc EXCEPT !.warn = @ \cup {Warning("save", sec, cv)}]
    ELSE acc

\* editor_section(title, section_key, has_desc, key_prefix), from the data
\* editor on.  acc carries the finance dict of this run, the files and whether
\* st.rerun() was called.  A table the user did not touch shows the stored rows.
editor_section(acc, sec, ev, autosave, sel, today) ==
    IF acc.rerun THEN acc
    ELSE One({ One({ SaveButton(auto, sec, cv, ev.kind = "save" /\ ev.sec = sec, sel) :
                     auto \in {AutosaveBlock(acc, sec, cv, autosave, sel)} }) :
               cv \in {_clean_and_validate_df(
                           IF ev.kind \in {"edit", "save"} /\ ev.sec = sec
                           THEN ev.table ELSE _df_from_rows(acc.finance[sec]), today)} })

RECURSIVE Editors(_, _, _, _, _, _)
Editors(acc, secs, ev, autosave, sel, today) ==
    IF secs = <<>> THEN acc
    ELSE One({ Editors(a, Tail(secs), ev, autosave, sel, today) :
               a \in {editor_section(acc, Head(secs), ev, autosave, sel, today)} })

\* An Etc save that writes a fresh book holding only the new Etc.
EtcIntoEmptyBook(ed, sel, ev) ==
    IF ed.rerun THEN [files |-> ed.files, rerun |-> TRUE, out |-> NoSummary, warn |-> {}]
    ELSE IF ev.kind = "etc"
    THEN [files |-> save_client_finance(ed.files, sel,
                                        [_empty_finance EXCEPT !.etc = Num(ev.n)]),
          rerun |-> TRUE, out |-> NoSummary, warn |-> {}]
    ELSE [files |-> ed.files, rerun |-> FALSE, warn |-> ed.warn,
          out |-> Summarize(ed.finance.income_details, ed.finance.expense_details,
                            ed.finance.etc)]

\* Etc save and the quick summary (src/app.py:767-787).
EtcAndQuick(ed, sel, ev) ==
    IF ed.rerun THEN [files |-> ed.files, rerun |-> TRUE, out |-> NoSummary, warn |-> {}]
    ELSE IF ev.kind = "etc"
    THEN [files |-> save_client_finance(ed.files, sel, [ed.finance EXCEPT !.etc = Num(ev.n)]),
          rerun |-> TRUE, out |-> NoSummary, warn |-> {}]
    ELSE [files |-> ed.files, rerun |-> FALSE, warn |-> ed.warn,
          out |-> Summarize(ed.finance.income_details, ed.finance.expense_details,
                            ed.finance.etc)]

\* TAB3 (src/app.py:558-787): load, the four editors, Etc, quick summary.
Tab3(fs, sel, ev, autosave, today) ==
    IF sel = None THEN [files |-> fs, rerun |-> FALSE, out |-> NoSummary, warn |-> {}]
    ELSE One({ EtcAndQuick(ed, sel, ev) :
               ed \in { Editors([finance |-> ld.data, files |-> ld.files, rerun |-> FALSE,
                                 warn |-> {}],
                                SectionOrder, ev, autosave, sel, today) :
                        ld \in {load_client_finance(fs, sel)} } })

NoTab4 ==
    [st |-> "none", inc_rows |-> <<>>, exp_rows |-> <<>>,
     mixsum |-> NoSummary, mix |-> NoChart, assets |-> NoBlock, liabilities |-> NoBlock]

\* The four values with Remaining ahead of Expense.
MixEntriesRemainingFirst(sm) ==
    << Entry(<<"Income">>, sm.income), Entry(<<"Remaining">>, sm.remaining),
       Entry(<<"Expense">>, sm.expense), Entry(<<"Etc">>, sm.etc) >>

\* The four values of the Income / Expense Mix chart.
MixEntries(sm) ==
    << Entry(<<"Income">>, sm.income), Entry(<<"Expense">>, sm.expense),
       Entry(<<"Remaining">>, sm.remaining), Entry(<<"Etc">>, sm.etc) >>

\* The three charts of TAB4, each reached only when nothing before it raised.
Charts(base, mix, ablock, lblock) ==
    IF base.mixsum.st = "raise" THEN [base EXCEPT !.st = "raise"]
    ELSE IF mix.kind = "raise" THEN [base EXCEPT !.st = "raise", !.mix = mix]
    ELSE IF ablock.chart.kind = "raise"
    THEN [base EXCEPT !.st = "raise", !.mix = mix, !.assets = ablock]
    ELSE [base EXCEPT !.st = IF lblock.chart.kind = "raise" THEN "raise" ELSE "shown",
                      !.mix = mix, !.assets = ablock, !.liabilities = lblock]

MixChart(sm) == IF sm.st = "raise" THEN NoChart ELSE draw_pie(MixEntries(sm))

Tab4Charts(inc, exp, etc, fin, period, rng) ==
    One({ Charts([NoTab4 EXCEPT !.inc_rows = inc, !.exp_rows = exp, !.mixsum = sm],
                 MixChart(sm),
                 CategoryBlock(filter_rows(fin.assets, period, rng)),
                 CategoryBlock(filter_rows(fin.liabilities, period, rng))) :
          sm \in {Summarize(inc, exp, etc)} })

Tab4Body(fin, period, rng) ==
    One({ Tab4Charts(inc, exp, fin.etc, fin, period, rng) :
          inc \in {filter_rows(fin.income_details, period, rng)},
          exp \in {filter_rows(fin.expense_details, period, rng)} })

\* TAB4 (src/app.py:790-895).  st is "shown", or "raise" when an exception
\* ended the run; a chart the run never reached keeps kind "none".
Tab4(fs, sel, o, t) ==
    IF sel = None THEN [files |-> fs, out |-> NoTab4]
    ELSE One({ [files |-> ld.files, out |-> Tab4Body(ld.data, o.period, rng)] :
               ld \in {load_client_finance(fs, sel)},
               rng \in {PeriodRange(o.period, t, o.cstart, o.cend)} })

NoView == [top |-> NoSummary, quick |-> NoSummary, tab4 |-> NoTab4]

\* The rows of the TAB2 table: archived clients are left out ("include
\* archived" is not ticked, the search box is empty; src/app.py:350-375).
Visible(cl, arch) == SelectSeq(cl, LAMBDA c : c \notin arch)

\* The client the TAB2 selectbox returns: the user's choice, else the current
\* selection when it is among the rows, else the first row, else nothing
\* (src/app.py:380-385).
Picked(cl, sel, ev, arch) ==
    IF ev.kind = "select" /\ InList(Visible(cl, arch), ev.c) THEN ev.c
    ELSE IF InList(Visible(cl, arch), sel) THEN sel
    ELSE IF Visible(cl, arch) # <<>> THEN Visible(cl, arch)[1]
    ELSE None

\* TAB2's export expander loads the book of the selected, listed client
\* (src/app.py:392-429); then TAB3 and TAB4.
Tabs(s, ev, top) ==
    One({ IF t3.rerun
          THEN [s EXCEPT !.files = t3.files, !.view = NoView, !.rerun = TRUE, !.warn = {}]
          ELSE One({ [s EXCEPT !.files = t4.files, !.rerun = FALSE, !.warn = t3.warn,
                               !.view = [top |-> top.out, quick |-> t3.out,
                                         tab4 |-> t4.out]] :
                     t4 \in {Tab4(t3.files, s.selected, s.opts, s.today)} }) :
          t3 \in { Tab3(f2, s.selected, ev, s.autosave, s.today) :
                   f2 \in {IF s.clients # <<>> /\ InList(s.clients, s.selected)
                           THEN load_client_finance(top.files, s.selected).files
                           ELSE top.files} } })

\* One run of the script on session/disk state s after the user did ev.
\* rerun tells that the run ended in st.rerun().
AfterTop(s, ev, top) ==
    IF top.out.st = "raise"
    THEN [s EXCEPT !.files = top.files, !.view = [NoView EXCEPT !.top = top.out],
                   !.rerun = FALSE]
    ELSE IF ev.kind = "register"
    THEN [s EXCEPT !.files = top.files, !.clients = Append(s.clients, ev.c),
                   !.view = NoView, !.rerun = TRUE]
    ELSE IF s.clients # <<>> /\ Picked(s.clients, s.selected, ev, s.archived) # s.selected
    THEN [s EXCEPT !.files = top.files,
                   !.selected = Picked(s.clients, s.selected, ev, s.archived),
                   !.view = NoView, !.rerun = TRUE]
    ELSE Tabs(s, ev, top)

ScriptRun(s, ev) ==
    One({ AfterTop(s, ev, top) : top \in {TopSummary(s.clients, s.files, s.selected)} })

\* ------------------------------------------------------------------ st.session_state
\* A key of st.session_state is kept split at its underscores:
\* "income_editor_<id>" is <<"income", "editor", id>>.  A client id is uuid4
\* hex and holds no underscore, so it is one piece.
LoadedKey == <<"", "edit", "loaded", "id">>

\* The session defaults (src/app.py:194-199): the load marker is None.
NoState == (LoadedKey :> None)

\* key.startswith(p + "_") and key.endswith("_" + s), p and s split alike.
StartsWith(key, p) == Len(key) > Len(p) /\ SubSeq(key, 1, Len(p)) = p
EndsWith(key, s) == Len(key) > Len(s) /\ SubSeq(key, Len(key) - Len(s) + 1, Len(key)) = s

\* key_prefix and section_key of the four calls of editor_section.
KeyPrefix(sec) ==
    CASE sec = "income_details" -> <<"income">>
      [] sec = "expense_details" -> <<"expense">>
      [] OTHER -> <<sec>>
SectionKey(sec) ==
    CASE sec = "income_details" -> <<"income", "details">>
      [] sec = "expense_details" -> <<"expense", "details">>
      [] OTHER -> <<sec>>
HasDesc(sec) == sec \in {"income_details", "expense_details"}

WorkingKey(sec, c) == SectionKey(sec) \o <<"working", c>>
WidgetKey(sec, name, c) == KeyPrefix(sec) \o name \o <<c>>
EtcKey(c) == <<"summary", "etc", c>>
DownloadKey(c) == <<"dl", "fin", "json", c>>

\* The widgets of the quick input of a section.
QuickKeys(sec, c) ==
    {WidgetKey(sec, n, c) :
        n \in {<<"quick", "cat">>, <<"quick", "amt">>, <<"quick", "date">>}
              \cup (IF HasDesc(sec) THEN {<<"quick", "desc">>} ELSE {})}

\* The test that pops the section widgets only and leaves the working tables.
ClearedWidgetsOnly(key, c) ==
    /\ EndsWith(key, <<c>>)
    /\ \/ \E p \in {"income", "expense", "assets", "liabilities"} :
              StartsWith(key, <<p, "editor">>) \/ StartsWith(key, <<p, "quick">>)
       \/ StartsWith(key, <<"summary", "etc">>)
       \/ EndsWith(key, <<"presel", c>>)

\* The test of clear_transient_inputs on one key (src/app.py:216-228).
Cleared(key, c) ==
    /\ EndsWith(key, <<c>>)
    /\ \/ \E p \in {"income", "expense", "assets", "liabilities"} :
              StartsWith(key, <<p, "editor">>) \/ StartsWith(key, <<p, "quick">>)
       \/ StartsWith(key, <<"summary", "etc">>)
       \/ EndsWith(key, <<"working", c>>)
       \/ EndsWith(key, <<"presel", c>>)

\* clear_transient_inputs(client_id)
clear_transient_inputs(ss, client_id) ==
    IF client_id = None THEN ss
    ELSE [k \in {x \in DOMAIN ss : ~Cleared(x, client_id)} |-> ss[k]]

\* st.session_state[k] = v, st.session_state.pop(k, None), and the widgets a
\* run renders: a widget not yet in the session enters it with its default.
PutEntry(ss, k, v) == [x \in DOMAIN ss \cup {k} |-> IF x = k THEN v ELSE ss[x]]
PopEntries(ss, ks) == [x \in DOMAIN ss \ ks |-> ss[x]]
RenderWidgets(ss, ks) == [x \in DOMAIN ss \cup ks |-> IF x \in DOMAIN ss THEN ss[x] ELSE "w"]

\* get_working_df(section_key): the session after the call; the table is the
\* entry under WorkingKey.  set_working_df(section_key, df).
get_working_df(ss, sec, c, finance) ==
    IF WorkingKey(sec, c) \in DOMAIN ss THEN ss
    ELSE PutEntry(ss, WorkingKey(sec, c), _df_from_rows(finance[sec]))
set_working_df(ss, sec, c, df) == PutEntry(ss, WorkingKey(sec, c), df)

\* _empty_row(section_key), with date.today() = t.
_empty_row(t) == Row(<<>>, Num(0), t)

\* range(5) of the "add blank rows" button.
BlankRows == 5

\* ------------------------------------------------------------------ the script on working tables
\* The run of the script with the entries of st.session_state it reads and
\* writes.  acc carries the finance dict of the run, the files, the session
\* entries, whether st.rerun() was called, the messages shown and the
\* sections save_client_finance was called for.
Hit(ev, kind, sec) == ev.kind = kind /\ ev.sec = sec

\* Presets and quick input (src/app.py:650-683).  ev.table holds the row of
\* the quick-input fields.
QuickInput(acc, sec, ev, c) ==
    IF acc.rerun THEN acc
    ELSE One({ IF Hit(ev, "quickadd", sec) /\ Strip(ev.table[1].category) # <<>>
               THEN One({ [acc EXCEPT
                              !.rerun = TRUE,
                              !.ss = PopEntries(
                                         set_working_df(g, sec, c,
                                             Append(g[WorkingKey(sec, c)],
                                                    Row(Strip(ev.table[1].category),
                                                        ev.table[1].amount, ev.table[1].date))),
                                         QuickKeys(sec, c))] :
                          g \in {get_working_df(ss1, sec, c, acc.finance)} })
               ELSE [acc EXCEPT !.ss = ss1] :
               ss1 \in {RenderWidgets(acc.ss,
                            {WidgetKey(sec, <<"presel">>, c), WidgetKey(sec, <<"addpreset">>, c),
                             WidgetKey(sec, <<"quick", "add">>, c)} \cup QuickKeys(sec, c))} })

\* The "add blank rows" button (src/app.py:687-691).
AddBlankRows(acc, sec, ev, c, t) ==
    IF acc.rerun THEN acc
    ELSE One({ IF Hit(ev, "addblank", sec)
               THEN One({ [acc EXCEPT
                              !.rerun = TRUE,
                              !.ss = set_working_df(g, sec, c,
                                         g[WorkingKey(sec, c)]
                                             \o [i \in 1..BlankRows |-> _empty_row(t)])] :
                          g \in {get_working_df(ss1, sec, c, acc.finance)} })
               ELSE [acc EXCEPT !.ss = ss1] :
               ss1 \in {RenderWidgets(acc.ss, {WidgetKey(sec, <<"addblank">>, c)})} })

\* The duplicate-row widgets and the reset button (src/app.py:693-704).
ResetButton(acc, sec, ev, c) ==
    IF acc.rerun THEN acc
    ELSE One({ IF Hit(ev, "reset", sec)
               THEN [acc EXCEPT !.rerun = TRUE,
                                !.ss = set_working_df(ss1, sec, c,
                                                      _df_from_rows(acc.finance[sec]))]
               ELSE [acc EXCEPT !.ss = ss1] :
               ss1 \in { RenderWidgets(g,
                             {WidgetKey(sec, <<"reset">>, c)}
                             \cup (IF g[WorkingKey(sec, c)] # <<>>
                                   THEN {WidgetKey(sec, <<"dupidx">>, c),
                                         WidgetKey(sec, <<"duprow">>, c)}
                                   ELSE {})) :
                         g \in {get_working_df(acc.ss, sec, c, acc.finance)} } })

\* The working table after a save of the rows cv.rows.
Saved(acc, sec, c, rows) ==
    [acc EXCEPT !.ss = set_working_df(acc.ss, sec, c, _df_from_rows(rows)),
                !.wrote = @ \cup {sec}]

\* The data editor, autosave and the save button (src/app.py:706-757).  The
\* editor returns the working table, with the user's edit when there is one.
DataEditor(acc, sec, ev, c, s) ==
    IF acc.rerun THEN acc
    ELSE One({ One({ One({ IF Hit(ev, "save", sec) /\ ~cv.errs
                           THEN Saved(btn, sec, c, cv.rows) ELSE btn :
                           btn \in {SaveButton(
                                        [auto EXCEPT !.ss = RenderWidgets(
                                             @, {WidgetKey(sec, <<"save">>, c)})],
                                        sec, cv, Hit(ev, "save", sec), c)} }) :
                     auto \in { IF s.autosave /\ ~cv.errs
                                   /\ ~_rows_equal(cv.rows, acc.finance[sec])
                                THEN Saved(AutosaveBlock(shown, sec, cv, s.autosave, c),
                                           sec, c, cv.rows)
                                ELSE AutosaveBlock(shown, sec, cv, s.autosave, c) :
                                shown \in {[acc EXCEPT !.ss = set_working_df(
                                                g, sec, c, edited)]} } }) :
               g \in {RenderWidgets(get_working_df(acc.ss, sec, c, acc.finance),
                                    {WidgetKey(sec, <<"editor">>, c)})},
               edited \in {IF Hit(ev, "edit", sec) THEN ev.table
                           ELSE get_working_df(acc.ss, sec, c, acc.finance)[WorkingKey(sec, c)]},
               cv \in {_clean_and_validate_df(
                           IF Hit(ev, "edit", sec) THEN ev.table
                           ELSE get_working_df(acc.ss, sec, c, acc.finance)[WorkingKey(sec, c)],
                           s.today)} })

\* editor_section(title, section_key, has_desc, key_prefix) as a whole.
WorkingSection(acc, sec, ev, s) ==
    One({ DataEditor(a3, sec, ev, s.selected, s) :
          a3 \in { ResetButton(a2, sec, ev, s.selected) :
                   a2 \in { AddBlankRows(a1, sec, ev, s.selected, s.today) :
                            a1 \in {QuickInput(acc, sec, ev, s.selected)} } } })

RECURSIVE WorkingEditors(_, _, _, _)
WorkingEditors(acc, secs, ev, s) ==
    IF secs = <<>> THEN acc
    ELSE One({ WorkingEditors(a, Tail(secs), ev, s) :
               a \in {WorkingSection(acc, Head(secs), ev, s)} })

\* The Etc input and its save button, then the quick summary
\* (src/app.py:767-787).
WorkingEtc(ed, ev, c) ==
    IF ed.rerun THEN [ed EXCEPT !.out = NoSummary]
    ELSE IF ev.kind = "etc"
    THEN [ed EXCEPT !.files = save_client_finance(
                                  ed.files, c, [ed.finance EXCEPT !.etc = Num(ev.n)]),
                    !.ss = PopEntries(ed.ss, {EtcKey(c)}),
                    !.rerun = TRUE, !.out = NoSummary]
    ELSE [ed EXCEPT !.ss = RenderWidgets(ed.ss, {EtcKey(c)}),
                    !.out = Summarize(ed.finance.income_details,
                                      ed.finance.expense_details, ed.finance.etc)]

\* TAB3 (src/app.py:558-787).
WorkingTab3(s, fs, ss, ev) ==
    IF s.selected = None
    THEN [files |-> fs, ss |-> ss, rerun |-> FALSE, warn |-> {}, wrote |-> {},
          out |-> NoSummary]
    ELSE One({ WorkingEtc(ed, ev, s.selected) :
               ed \in { WorkingEditors([finance |-> ld.data, files |-> ld.files, ss |-> ss,
                                        rerun |-> FALSE, warn |-> {}, wrote |-> {},
                                        out |-> NoSummary],
                                       SectionOrder, ev, s) :
                        ld \in {load_client_finance(fs, s.selected)} } })

\* TAB2 from the profile on (src/app.py:392-471), then TAB3 and TAB4: the
\* archive button, the export expander, the load marker of the edit form.
WorkingTabs(s, ev, top) ==
    IF s.selected # None /\ InList(s.clients, s.selected)
       /\ ev.kind = "archive" /\ s.selected \notin s.archived
    THEN [s EXCEPT !.files = top.files, !.archived = @ \cup {s.selected},
                   !.selected = None, !.view = NoView, !.rerun = TRUE]
    ELSE One({ IF t3.rerun
               THEN [s EXCEPT !.files = t3.files, !.ss = t3.ss, !.view = NoView,
                              !.rerun = TRUE, !.warn = {}, !.wrote = @ \cup t3.wrote]
               ELSE One({ [s EXCEPT !.files = t4.files, !.ss = t3.ss, !.rerun = FALSE,
                                    !.warn = t3.warn, !.wrote = @ \cup t3.wrote,
                                    !.view = [top |-> top.out, quick |-> t3.out,
                                              tab4 |-> t4.out]] :
                          t4 \in {Tab4(t3.files, s.selected, s.opts, s.today)} }) :
               t3 \in { IF s.selected # None /\ InList(s.clients, s.selected)
                        THEN WorkingTab3(s, load_client_finance(top.files, s.selected).files,
                                         PutEntry(RenderWidgets(s.ss, {DownloadKey(s.selected)}),
                                                  LoadedKey, s.selected),
                                         ev)
                        ELSE WorkingTab3(s, top.files, s.ss, ev) } })

\* One run of the script: the top summary, TAB1, the selectbox of TAB2
\* (src/app.py:380-390), the rest.
WorkingAfterTop(s, ev, top) ==
    IF top.out.st = "raise"
    THEN [s EXCEPT !.files = top.files, !.view = [NoView EXCEPT !.top = top.out],
                   !.rerun = FALSE]
    ELSE IF ev.kind = "register"
    THEN [s EXCEPT !.files = top.files, !.clients = Append(s.clients, ev.c),
                   !.view = NoView, !.rerun = TRUE]
    ELSE IF s.clients # <<>> /\ Picked(s.clients, s.selected, ev, s.archived) # s.selected
    THEN [s EXCEPT !.files = top.files,
                   !.ss = PutEntry(clear_transient_inputs(s.ss, s.selected), LoadedKey, None),
                   !.selected = Picked(s.clients, s.selected, ev, s.archived),
                   !.view = NoView, !.rerun = TRUE]
    ELSE WorkingTabs(s, ev, top)

WorkingRun(s, ev) ==
    One({ WorkingAfterTop(s, ev, top) :
          top \in {TopSummary(s.clients, s.files, s.selected)} })

\* The run the interaction ev triggers and the runs st.rerun() starts after it.
WorkingRuns(s, ev) ==
    One({ IF r2.rerun THEN WorkingRun(r2, NoEvent) ELSE r2 :
          r2 \in { IF r1.rerun THEN WorkingRun(r1, NoEvent) ELSE r1 :
                   r1 \in {WorkingRun(s, ev)} } })

\* ------------------------------------------------------------------ state
VARIABLES
    clients,    \* clients.json: the ids of the registered clients, in order
    files,      \* data/client_<id>.json: a book, or NoFile
    selected,   \* st.session_state.selected_client_id
    autosave,   \* st.session_state.autosave
    opts,       \* the period widgets of the sidebar: period, start, end
    today,      \* date.today()
    view,       \* what the last run rendered
    profile,    \* clients.json: email, phone and archived flag of each record
    other,      \* selected_client_id of a second browser session
    dialog,     \* the delete confirmation of the profile form, as on screen
    editor,     \* TAB3 of the last run: the table the user left, the messages shown
    disk,       \* one call of atomic_write under way: its position and the files
    session_state   \* st.session_state: the entries keyed by a client, the load marker

vars == <<clients, files, selected, autosave, opts, today, view,
          profile, other, dialog, editor, disk, session_state>>

\* The variables a run of the script in this session rests on.
base == <<clients, files, selected, autosave, opts, today, view>>

\* A record of clients.json.
Profile(email, phone, archived) == [email |-> email, phone |-> phone, archived |-> archived]
NoProfile == Profile(<<>>, <<>>, FALSE)

Archived == {c \in DOMAIN profile : profile[c].archived}

Session ==
    [clients |-> clients, files |-> files, selected |-> selected, autosave |-> autosave,
     opts |-> opts, today |-> today, view |-> view, rerun |-> FALSE,
     archived |-> Archived, warn |-> {}]

\* Books beyond MaxBookRows rows are not explored.
WithinBounds(fs) ==
    \A c \in DOMAIN fs : IF fs[c] = NoFile THEN TRUE ELSE TotalRows(fs[c]) <= MaxBookRows

\* What TAB3 showed when the user touched no table.
NoEdit == [kind |-> "none", sec |-> "", table |-> <<>>, warn |-> {}]

\* The delete confirmation: how many of the interactions "press delete, tick
\* the checkbox, press delete with the box ticked" were made since it was last
\* off screen, what the form shows, and the client the form is about.
Dialog(step, screen, c) == [step |-> step, screen |-> screen, client |-> c]
NoDialog == Dialog(0, "closed", None)

\* No call of atomic_write under way.
NoCall == [pc |-> "idle"]

\* The chart with its legend in the order of the wedges.
Unsorted(ch) == [ch EXCEPT !.legend = ch.wedges]

\* Runs whose legends are left unsorted while autosave is on.
InteractUnsortedOnAutosave(s, ev) ==
    \E r1 \in {ScriptRun(s, ev)} :
    \E r2 \in {IF r1.rerun THEN ScriptRun(r1, NoEvent) ELSE r1} :
    \E r \in {IF r2.rerun THEN ScriptRun(r2, NoEvent) ELSE r2} :
        /\ ~r.rerun
        /\ WithinBounds(r.files)
        /\ clients' = r.clients
        /\ files' = r.files
        /\ selected' = r.selected
        /\ autosave' = r.autosave
        /\ opts' = r.opts
        /\ today' = r.today
        /\ view' = IF r.autosave
                   THEN [r.view EXCEPT !.tab4.mix = Unsorted(@),
                                       !.tab4.assets.chart = Unsorted(@),
                                       !.tab4.liabilities.chart = Unsorted(@)]
                   ELSE r.view
        /\ UNCHANGED <<profile, other, dialog, editor, disk, session_state>>

\* The run the interaction ev triggers, and the plain runs st.rerun() starts
\* after it (register, then the automatic selection, then a full render).
Runs(s, ev) ==
    One({ IF r2.rerun THEN ScriptRun(r2, NoEvent) ELSE r2 :
          r2 \in { IF r1.rerun THEN ScriptRun(r1, NoEvent) ELSE r1 :
                   r1 \in {ScriptRun(s, ev)} } })

\* The session and the disk after the runs that ended in r.
Lands(r) ==
    /\ ~r.rerun
    /\ WithinBounds(r.files)
    /\ clients' = r.clients
    /\ files' = r.files
    /\ selected' = r.selected
    /\ autosave' = r.autosave
    /\ opts' = r.opts
    /\ today' = r.today
    /\ view' = r.view

\* An interaction with nothing but this session's widgets.
Interact(s, ev) ==
    /\ \E r \in {Runs(s, ev)} : Lands(r)
    /\ UNCHANGED <<profile, other, dialog, editor, disk, session_state>>

\* ------------------------------------------------------------------ inputs
Nov30 == Date(2024, 11, 30)
Dec01 == Date(2024, 12, 1)
Dec15 == Date(2024, 12, 15)
Dec31 == Date(2024, 12, 31)
Jan01 == Date(2025, 1, 1)

Tables(S, n) == UNION {[1..k -> S] : k \in 0..n}

\* Rows the user leaves in a data editor: a padded category with a blank date,
\* a lower-case and a blank category, a negative, a blank (NaN) and a
\* non-numeric amount.
EditorRows ==
    { Row(<<" ", "A">>, Num(1), NoDate),
      Row(<<"a">>, Num(2), Dec01),
      Row(<<" ">>, Num(1), Dec01),
      Row(<<"A">>, Num(0 - 1), Dec01),
      Row(<<"B">>, NaN, Dec01),
      Row(<<"B">>, StrAmt, Dec01) }

RemoveAt(t, i) == [j \in 1..(Len(t) - 1) |-> IF j < i THEN t[j] ELSE t[j + 1]]

\* The tables one edit of the shown table t leads to: a row added at the end
\* or a row deleted (num_rows="dynamic"), or t as it is.
UserEdits(t) ==
    {t}
    \cup (IF Len(t) < MaxRows THEN {Append(t, e) : e \in EditorRows} ELSE {})
    \cup {RemoveAt(t, i) : i \in DOMAIN t}

\* The period widgets: the selectbox and the two date inputs of "custom".
DefaultOpts(t) == [period |-> "all", cstart |-> Date(t.y, 1, 1), cend |-> t]
OptChoices(t) ==
    {[period |-> p, cstart |-> Date(t.y, 1, 1), cend |-> t] : p \in {"all", "month", "year"}}
    \cup {[period |-> "custom", cstart |-> Dec01, cend |-> Dec31]}

\* ------------------------------------------------------------------ actions
\* Nothing registered with a profile, no second session, no confirmation on
\* screen, no table touched, no write under way.
Elsewhere ==
    /\ profile = [c \in ClientIds |-> NoProfile]
    /\ other = None
    /\ dialog = NoDialog
    /\ editor = NoEdit
    /\ disk = NoCall
    /\ session_state = NoState

Init ==
    /\ clients = <<>>
    /\ files = [c \in ClientIds |-> NoFile]
    /\ selected = None
    /\ autosave = FALSE
    /\ today = Dec15
    /\ opts = DefaultOpts(today)
    /\ view = NoView
    /\ Elsewhere

\* TAB1: a valid registration; uuid4 yields an id no client has.
Register ==
    \E c \in DOMAIN files :
        /\ ~InList(clients, c)
        /\ Interact(Session, Event("register", c, "", <<>>, 0))

\* TAB2: the user picks a client in the selectbox.
Select ==
    \E c \in DOMAIN files :
        /\ InList(clients, c)
        /\ Interact(Session, Event("select", c, "", <<>>, 0))

\* Sidebar: the autosave checkbox.
ToggleAutosave ==
    Interact([Session EXCEPT !.autosave = ~autosave], NoEvent)

\* Sidebar: the period widgets.
SetPeriod ==
    \E o \in OptChoices(today) :
        /\ selected # None
        /\ o # opts
        /\ Interact([Session EXCEPT !.opts = o], NoEvent)

\* The table a section's editor shows: the stored rows (the working copy is
\* not part of the state: the user saved, or pressed reset, before this edit).
Shown(sec) ==
    IF selected = None THEN <<>>
    ELSE IF files[selected] = NoFile THEN <<>>
    ELSE _df_from_rows(files[selected][sec])

\* TAB3: the user edits the table of one section; autosave acts on it.
Edit ==
    \E sec \in Sections :
    \E t \in UserEdits(Shown(sec)) :
        /\ selected # None
        /\ autosave
        /\ Interact(Session, Event("edit", None, sec, t, 0))

\* TAB3: the user presses the save button of one section.
Save ==
    \E sec \in Sections :
    \E t \in UserEdits(Shown(sec)) :
        /\ selected # None
        /\ Interact(Session, Event("save", None, sec, t, 0))

\* TAB3: the user presses the Etc save button.
EtcSave ==
    \E n \in 0..MaxEtc :
        /\ selected # None
        /\ Interact(Session, Event("etc", None, "", <<>>, n))

\* Any other interaction: a run that triggers nothing.
Refresh == Interact(Session, NoEvent)

Next ==
    \/ Register
    \/ Select
    \/ ToggleAutosave
    \/ Edit
    \/ Save
    \/ EtcSave
    \/ Refresh

Spec == Init /\ [][Next]_vars

\* ------------------------------------------------------------------ rendering a stored book
\* date.today() on the day the session runs: a December and another month.
Todays == {Date(2024, 11, 15), Dec15}

\* Rows of a book found on disk: they need not have been written by this
\* script (load_client_finance fills in what is absent and reads any JSON).
StoredRows ==
    { Row(<<"A">>, Num(1), Dec01),
      Row(<<"B">>, Num(2), Dec31),
      Row(<<"A">>, Num(2), Jan01),
      Row(<<"B">>, Num(0), Nov30),
      Row(<<"A">>, NoAmt, NoDate),
      Row(<<"B">>, StrAmt, BadDate),
      Row(<<"A">>, NaN, Dec01) }

StoredEtc == {Num(0), Num(1)}

\* The rows placed in section sec, in order.
RECURSIVE RowsFor(_, _)
RowsFor(ps, sec) ==
    IF ps = <<>> THEN <<>>
    ELSE (IF Head(ps)[1] = sec THEN <<Head(ps)[2]>> ELSE <<>>) \o RowsFor(Tail(ps), sec)

StoredBooks ==
    { Book(RowsFor(ps, "income_details"), RowsFor(ps, "expense_details"),
           RowsFor(ps, "assets"), RowsFor(ps, "liabilities"), etc) :
      ps \in Tables(Sections \X StoredRows, MaxBookRows), etc \in StoredEtc }

InitRender ==
    /\ clients = <<"c1">>
    /\ selected = "c1"
    /\ files \in {[c \in ClientIds |-> b] : b \in StoredBooks}
    /\ autosave = FALSE
    /\ today \in Todays
    /\ opts = DefaultOpts(today)
    /\ view = NoView
    /\ Elsewhere

NextRender ==
    \/ SetPeriod
    \/ Refresh

SpecRender == InitRender /\ [][NextRender]_vars

\* ------------------------------------------------------------------ drawing the mix
\* Books with whole amounts in income and expense, all dated this month.
MixRows == {Row(<<"A">>, Num(n), Dec01) : n \in 1..MaxMixAmount}

MixBooks ==
    { b \in { Book(inc, exp, <<>>, <<>>, etc) :
              inc \in Tables(MixRows, MaxMixRows), exp \in Tables(MixRows, MaxMixRows),
              etc \in StoredEtc } :
      TotalRows(b) <= MaxBookRows }

InitMix ==
    /\ clients = <<"c1">>
    /\ selected = "c1"
    /\ files \in {[c \in ClientIds |-> b] : b \in MixBooks}
    /\ autosave = FALSE
    /\ today = Dec15
    /\ opts = DefaultOpts(today)
    /\ view = NoView
    /\ Elsewhere

NextMix == Refresh

SpecMix == InitMix /\ [][NextMix]_vars

\* ------------------------------------------------------------------ two clients
\* Two ids uuid4 may yield.
TwoIds == {"c1", "c2"}

InitTwo ==
    /\ clients = <<>>
    /\ files = [c \in TwoIds |-> NoFile]
    /\ selected = None
    /\ autosave = FALSE
    /\ today = Dec15
    /\ opts = DefaultOpts(today)
    /\ view = NoView
    /\ profile = [c \in TwoIds |-> NoProfile]
    /\ other = None
    /\ dialog = NoDialog
    /\ editor = NoEdit
    /\ disk = NoCall
    /\ session_state = NoState

NextPure ==
    \/ Register
    \/ Select
    \/ SetPeriod
    \/ ToggleAutosave
    \/ EtcSave
    \/ Refresh

SpecPure == InitTwo /\ [][NextPure]_vars

\* ------------------------------------------------------------------ deleting, two sessions
\* delete_client_and_data(client_id): the book file is unlinked and the record
\* is filtered out of clients.json.
delete_client_and_data(s, c) ==
    [s EXCEPT !.files = [@ EXCEPT ![c] = NoFile],
              !.clients = SelectSeq(@, LAMBDA x : x # c)]

\* The delete branch of the profile form is executed for the selected client:
\* the client is deleted, the selection cleared, and st.rerun() runs the
\* script again (src/app.py:542-544).
Delete ==
    /\ selected # None
    /\ InList(clients, selected)
    /\ Interact([delete_client_and_data(Session, selected) EXCEPT !.selected = None],
                NoEvent)

\* The second browser session: its own session state, the same data directory.
OtherSession ==
    [Session EXCEPT !.selected = other, !.autosave = FALSE,
                    !.opts = DefaultOpts(today), !.view = NoView]

\* The second session runs the script (its user opens or touches the page).
OtherRun ==
    /\ \E r \in {Runs(OtherSession, NoEvent)} :
           /\ ~r.rerun
           /\ WithinBounds(r.files)
           /\ clients' = r.clients
           /\ files' = r.files
           /\ other' = r.selected
    /\ UNCHANGED <<selected, autosave, opts, today, view, profile, dialog, editor, disk, session_state>>

\* A save that leaves at most MaxOwnRows rows in the book.
SmallSave == Save /\ TotalRows(files'[selected']) <= MaxOwnRows

NextOwn ==
    \/ Register
    \/ Select
    \/ SetPeriod
    \/ SmallSave
    \/ EtcSave
    \/ Refresh
    \/ Delete
    \/ OtherRun

SpecOwn == Init /\ [][NextOwn]_vars

\* ------------------------------------------------------------------ the delete confirmation
\* st.button called inside `with st.form(...)`: Streamlit refuses it with a
\* StreamlitAPIException, which ends the run.
ButtonInForm == "error"

\* The block under `if del_clicked:` (src/app.py:539-544), which is inside the
\* form: the warning and the checkbox, and the final button only when the
\* checkbox is ticked.
DeleteBlock(del_clicked, ticked) ==
    IF ~del_clicked THEN "closed"
    ELSE IF ~ticked THEN "asked"
    ELSE ButtonInForm

\* The run stopped by an exception in TAB2: the top summary was rendered,
\* TAB3 and TAB4 were not.
StoppedInTab2(s) ==
    One({ [s EXCEPT !.files = top.files, !.view = [NoView EXCEPT !.top = top.out]] :
          top \in {TopSummary(s.clients, s.files, s.selected)} })

\* The profile form is on screen: a client is selected and among the rows.
FormShown == selected # None /\ InList(Visible(clients, Archived), selected)

\* The user presses the form's delete submit button: del_clicked is True in
\* this run, and the checkbox has the value the form submits.
PressDelete ==
    /\ FormShown
    /\ \E ticked \in {dialog.screen \in {"ticked", "error"}} :
       \E shows \in {DeleteBlock(TRUE, ticked)} :
           /\ Lands(IF shows = "error" THEN StoppedInTab2(Session)
                    ELSE Runs(Session, NoEvent))
           /\ dialog' = Dialog(IF ticked THEN 3 ELSE 1, shows, selected)
    /\ UNCHANGED <<profile, other, editor, disk, session_state>>

\* The user ticks the confirmation checkbox: a widget of the form, so no run
\* is triggered until a submit button is pressed.
TickConfirm ==
    /\ FormShown
    /\ dialog.screen = "asked"
    /\ dialog' = Dialog(2, "ticked", selected)
    /\ UNCHANGED <<base, profile, other, editor, disk, session_state>>

\* Any other interaction (sidebar, selectbox, Etc save, registration): a run
\* in which del_clicked is False, so the block is not rendered.
Leave ==
    /\ \E s \in {Session, [Session EXCEPT !.autosave = ~autosave]}
                 \cup {[Session EXCEPT !.opts = o] : o \in OptChoices(today)} :
       \E ev \in {NoEvent} \cup {Event("etc", None, "", <<>>, n) : n \in 0..MaxEtc}
                         \cup {Event(k, c, "", <<>>, 0) :
                                   k \in {"register", "select"}, c \in DOMAIN files} :
           /\ ev.kind = "etc" => selected # None
           /\ ev.kind = "select" => InList(clients, ev.c)
           /\ ev.kind = "register" => ~InList(clients, ev.c)
           /\ Lands(Runs(s, ev))
    /\ dialog' = Dialog(0, DeleteBlock(FALSE, FALSE), None)
    /\ UNCHANGED <<profile, other, editor, disk, session_state>>

NextDelete ==
    \/ PressDelete
    \/ TickConfirm
    \/ Leave

SpecDelete == InitTwo /\ [][NextDelete]_vars

\* ------------------------------------------------------------------ saves held back
\* Rows the user types: a valid one, a negative and a non-numeric amount, and
\* a negative amount in a row without category.
HoldRows ==
    { Row(<<"A">>, Num(1), Dec01),
      Row(<<"A">>, Num(0 - 1), Dec01),
      Row(<<"B">>, StrAmt, Dec01),
      Row(<<" ">>, Num(0 - 1), Dec01) }

HoldEdits(t) ==
    {t}
    \cup (IF Len(t) < MaxRows THEN {Append(t, e) : e \in HoldRows} ELSE {})
    \cup {RemoveAt(t, i) : i \in DOMAIN t}

\* The user leaves table t in the editor of section sec (kind "edit": a cell
\* edit, on which autosave acts; kind "save": the save button is pressed).
\* editor keeps the table and the messages on screen after the runs.
Touch ==
    \E kind \in {"edit", "save"} :
    \E sec \in Sections :
    \E t \in HoldEdits(Shown(sec)) :
        /\ selected # None
        /\ kind = "edit" => autosave
        /\ \E r \in {Runs(Session, Event(kind, None, sec, t, 0))} :
               /\ Lands(r)
               /\ TotalRows(r.files[r.selected]) <= MaxOwnRows
               /\ editor' = [kind |-> kind, sec |-> sec, table |-> t, warn |-> r.warn]
        /\ UNCHANGED <<profile, other, dialog, disk, session_state>>

\* A registration, the autosave checkbox, or a plain run: no table is touched.
NoTouch ==
    /\ \E s \in {Session, [Session EXCEPT !.autosave = ~autosave]} :
       \E ev \in {NoEvent} \cup {Event("register", c, "", <<>>, 0) : c \in DOMAIN files} :
           /\ ev.kind = "register" => ~InList(clients, ev.c)
           /\ \E r \in {Runs(s, ev)} : Lands(r) /\ editor' = [NoEdit EXCEPT !.warn = r.warn]
    /\ UNCHANGED <<profile, other, dialog, disk, session_state>>

NextHold ==
    \/ Touch
    \/ NoTouch

SpecHold == Init /\ [][NextHold]_vars

\* ------------------------------------------------------------------ atomic_write, step by step
\* A file: whether it exists and the characters in it.
File(data) == [exists |-> TRUE, data |-> data]
Missing == [exists |-> FALSE, data |-> <<>>]

Texts == Tables({"a", "b"}, MaxText)

\* The temporary file is path itself.
TempIsPath == "path"

\* tempfile.NamedTemporaryFile(dir=path.parent): a new file beside path.
TempFile == "tmp"

\* A step raised: the exception is in flight towards `except Exception`.
Fails(step) == [disk EXCEPT !.pc = "except", !.exc = TRUE, !.failed = @ \cup {step}]

\* atomic_write(path, text) is called; path holds old or does not exist.
Call ==
    /\ disk.pc = "idle"
    /\ \E old \in {File(d) : d \in Texts} \cup {Missing} :
       \E text \in Texts :
           disk' = [pc |-> "backup", old |-> old, text |-> text,
                    fs |-> [path |-> old, bak |-> Missing, tmp |-> Missing],
                    failed |-> {}, exc |-> FALSE, shown |-> FALSE]
    /\ UNCHANGED <<base, profile, other, dialog, editor, session_state>>

\* `if path.exists():` is false: no backup.
NoBackup ==
    /\ disk.pc = "backup"
    /\ ~disk.fs.path.exists
    /\ disk' = [disk EXCEPT !.pc = "open"]
    /\ UNCHANGED <<base, profile, other, dialog, editor, session_state>>

\* shutil.copy2(path, bak).
BackupDone ==
    /\ disk.pc = "backup"
    /\ disk.fs.path.exists
    /\ disk' = [disk EXCEPT !.pc = "open", !.fs.bak = disk.fs.path]
    /\ UNCHANGED <<base, profile, other, dialog, editor, session_state>>

\* shutil.copy2 raises: `except Exception: pass`, and the call goes on.
BackupFails ==
    /\ disk.pc = "backup"
    /\ disk.fs.path.exists
    /\ disk' = [disk EXCEPT !.pc = "open", !.failed = @ \cup {"backup"}]
    /\ UNCHANGED <<base, profile, other, dialog, editor, session_state>>

\* The temporary file is created empty.
OpenTmp ==
    /\ disk.pc = "open"
    /\ disk' = [disk EXCEPT !.pc = "write", !.fs[TempFile] = File(<<>>)]
    /\ UNCHANGED <<base, profile, other, dialog, editor, session_state>>

OpenFails ==
    /\ disk.pc = "open"
    /\ disk' = Fails("tmp")
    /\ UNCHANGED <<base, profile, other, dialog, editor, session_state>>

\* tmp.write(text) reaches the file one character at a time.
WriteChunk ==
    /\ disk.pc = "write"
    /\ Len(disk.fs[TempFile].data) < Len(disk.text)
    /\ disk' = [disk EXCEPT !.fs[TempFile].data =
                                Append(@, disk.text[Len(disk.fs[TempFile].data) + 1])]
    /\ UNCHANGED <<base, profile, other, dialog, editor, session_state>>

\* The write, the flush or the close raises; what was written stays.
WriteFails ==
    /\ disk.pc = "write"
    /\ disk' = Fails("write")
    /\ UNCHANGED <<base, profile, other, dialog, editor, session_state>>

\* The `with` block ends: the temporary file is complete and closed.
CloseTmp ==
    /\ disk.pc = "write"
    /\ disk.fs[TempFile].data = disk.text
    /\ disk' = [disk EXCEPT !.pc = "replace"]
    /\ UNCHANGED <<base, profile, other, dialog, editor, session_state>>

\* os.replace(tmp_path, path): one atomic rename.
Replace ==
    /\ disk.pc = "replace"
    /\ disk' = [disk EXCEPT !.pc = "done",
                            !.fs = [[disk.fs EXCEPT ![TempFile] = Missing]
                                        EXCEPT !.path = disk.fs[TempFile]]]
    /\ UNCHANGED <<base, profile, other, dialog, editor, session_state>>

ReplaceFails ==
    /\ disk.pc = "replace"
    /\ disk' = Fails("replace")
    /\ UNCHANGED <<base, profile, other, dialog, editor, session_state>>

\* `except Exception as e: st.error(...)`.
Except ==
    /\ disk.pc = "except"
    /\ disk' = [disk EXCEPT !.pc = "done", !.exc = FALSE, !.shown = TRUE]
    /\ UNCHANGED <<base, profile, other, dialog, editor, session_state>>

\* The call returns to its caller.
Return ==
    /\ disk.pc = "done"
    /\ disk' = NoCall
    /\ UNCHANGED <<base, profile, other, dialog, editor, session_state>>

NextWrite ==
    \/ Call
    \/ NoBackup
    \/ BackupDone
    \/ BackupFails
    \/ OpenTmp
    \/ OpenFails
    \/ WriteChunk
    \/ WriteFails
    \/ CloseTmp
    \/ Replace
    \/ ReplaceFails
    \/ Except
    \/ Return

SpecWrite == Init /\ [][NextWrite]_vars

\* ------------------------------------------------------------------ profiles and duplicates
\* str.lower(), on the letters used here.
LowerChar(c) == CASE c = "A" -> "a" [] c = "B" -> "b" [] OTHER -> c
Lower(s) == [i \in DOMAIN s |-> LowerChar(s[i])]

IsLetter(c) == c \in {"a", "b", "A", "B"}
IsDigit(c) == c \in {"1", "2"}

\* only_digits(s): re.sub(r"\D", "", s).
only_digits(s) == SelectSeq(s, IsDigit)

\* format_phone(s): ddd-ddd-dddd when there are ten digits, else the digits.
format_phone(s) ==
    One({ IF Len(d) = 10
          THEN SubSeq(d, 1, 3) \o <<"-">> \o SubSeq(d, 4, 6) \o <<"-">> \o SubSeq(d, 7, 10)
          ELSE d :
          d \in {only_digits(s)} })

\* validate_email: EMAIL_RE = ^[^@\s]+@[^@\s]+\.[A-Za-z]{2,}$ matches.
validate_email(s) ==
    \E i \in 2..Len(s) :
    \E j \in (i + 2)..(Len(s) - 2) :
        /\ s[i] = "@"
        /\ s[j] = "."
        /\ \A k \in 1..(i - 1) : s[k] \notin {"@", Space}
        /\ \A k \in (i + 1)..(j - 1) : s[k] \notin {"@", Space}
        /\ \A k \in (j + 1)..Len(s) : IsLetter(s[k])

validate_phone10(s) == Len(only_digits(s)) = 10

\* find_duplicates that looks at every record, the edited one included.
FindDuplicatesAmongAll(cl, prof, email, phone, exclude_id) ==
    SelectSeq(cl, LAMBDA c :
                     \/ Lower(Strip(prof[c].email)) = Lower(Strip(email))
                     \/ only_digits(prof[c].phone) = only_digits(phone))

\* find_duplicates(clients, email, phone, exclude_id): the records, archived
\* or not, with the same normalised email or the same phone digits.
find_duplicates(cl, prof, email, phone, exclude_id) ==
    SelectSeq(cl, LAMBDA c :
                     /\ ~(exclude_id # None /\ c = exclude_id)
                     /\ \/ Lower(Strip(prof[c].email)) = Lower(Strip(email))
                        \/ only_digits(prof[c].phone) = only_digits(phone))

\* errs of both forms is non-empty (the name and address fields are valid).
FormErrors(email, phone, dups, allow_dup) ==
    \/ ~validate_email(email)
    \/ ~validate_phone10(phone)
    \/ (dups # <<>> /\ ~allow_dup)

\* What the user types into the Email and Phone fields.
Emails ==
    { <<"a", "@", "b", ".", "a", "a">>,
      <<"A", "@", "b", ".", "a", "a">>,
      <<"b", "@", "b", ".", "a", "a">>,
      <<" ", "a", "@", "b", ".", "a", "a">>,
      <<"a", "@", "b">> }

Phones ==
    { <<"1", "1", "1", "1", "1", "1", "1", "1", "1", "1">>,
      <<"1", "1", "1", "-", "1", "1", "1", "-", "1", "1", "1", "1">>,
      <<"2", "2", "2", "2", "2", "2", "2", "2", "2", "2">>,
      <<"1", "1", "1">> }

\* TAB1: the registration form is submitted with "ignore duplicates" not
\* ticked; uuid4 yields c (src/app.py:296-342).
RegisterWith(c, email, phone) ==
    /\ ~InList(clients, c)
    /\ IF FormErrors(email, phone, find_duplicates(clients, profile, email, phone, None),
                     FALSE)
       THEN /\ profile' = profile
            /\ Lands(Runs(Session, NoEvent))
       ELSE /\ profile' = [profile EXCEPT ![c] = Profile(Strip(email), format_phone(phone),
                                                         FALSE)]
            /\ Lands(Runs(Session, Event("register", c, "", <<>>, 0)))
    /\ UNCHANGED <<other, dialog, editor, disk, session_state>>

\* TAB2: the profile form of the selected client is saved with "ignore
\* duplicates" not ticked (src/app.py:501-537).
EditWith(email, phone) ==
    /\ FormShown
    /\ IF FormErrors(email, phone,
                     find_duplicates(clients, profile, email, phone, selected), FALSE)
       THEN profile' = profile
       ELSE profile' = [profile EXCEPT ![selected].email = Strip(email),
                                       ![selected].phone = format_phone(phone)]
    /\ Lands(Runs(Session, NoEvent))
    /\ UNCHANGED <<other, dialog, editor, disk, session_state>>

SubmitRegistration ==
    \E c \in DOMAIN files : \E email \in Emails : \E phone \in Phones :
        RegisterWith(c, email, phone)

SubmitEdit == \E email \in Emails : \E phone \in Phones : EditWith(email, phone)

\* TAB2: the archive button of the selected client (src/app.py:406-415).
Archive ==
    /\ FormShown
    /\ profile' = [profile EXCEPT ![selected].archived = TRUE]
    /\ Lands(Runs([Session EXCEPT !.selected = None,
                                  !.archived = Archived \cup {selected}], NoEvent))
    /\ UNCHANGED <<other, dialog, editor, disk, session_state>>

NextDup ==
    \/ SubmitRegistration
    \/ SubmitEdit
    \/ Select
    \/ Archive

SpecDup == InitTwo /\ [][NextDup]_vars

\* ------------------------------------------------------------------ line items and Etc
\* An autosaved edit that leaves at most MaxOwnRows rows in the book.
SmallEdit == Edit /\ TotalRows(files'[selected']) <= MaxOwnRows

NextEtc ==
    \/ Register
    \/ ToggleAutosave
    \/ SetPeriod
    \/ SmallEdit
    \/ SmallSave
    \/ EtcSave
    \/ Refresh

SpecEtc == Init /\ [][NextEtc]_vars

\* ------------------------------------------------------------------ working tables
\* The script run by run, with the session entries: an interaction starts a
\* run, and a run that ended in st.rerun() is followed by a plain run before
\* the user can act again.
WorkIds == <<"c1", "c2", "c3">>

WorkSession ==
    [clients |-> clients, files |-> files, selected |-> selected, autosave |-> autosave,
     opts |-> opts, today |-> today, view |-> view, rerun |-> FALSE,
     archived |-> Archived, warn |-> {}, wrote |-> {}, ss |-> session_state]

\* The table new is the table old with rows of empty category added at the end.
OnlyBlanksAdded(old, new) ==
    /\ Len(new) > Len(old)
    /\ SubSeq(new, 1, Len(old)) = old
    /\ \A i \in (Len(old) + 1)..Len(new) : ~HasCategory(new[i])

\* What the user did to the session s: as ev tells, an edit of the data
\* editor that added blank rows only being told apart from other edits.
Did(s, ev) ==
    IF ev.kind = "edit" /\ s.selected # None
    THEN IF OnlyBlanksAdded(s.ss[WorkingKey(ev.sec, s.selected)], ev.table)
         THEN "blanks" ELSE "edit"
    ELSE ev.kind

\* What the last run was started by, the messages it showed, the sections it
\* saved and whether it ended in st.rerun().
LastRun(s, ev, r) ==
    [kind |-> Did(s, ev), sec |-> ev.sec, warn |-> r.warn, wrote |-> r.wrote,
     rerun |-> r.rerun]

Pending == "rerun" \in DOMAIN editor /\ editor.rerun

\* Working tables beyond MaxWork rows are not explored.
WorkBounds(ss) ==
    \A c \in DOMAIN files : \A sec \in Sections :
        WorkingKey(sec, c) \in DOMAIN ss => Len(ss[WorkingKey(sec, c)]) <= MaxWork

\* One run of the script on the session as it stands, after the user did ev.
Does(s, ev) ==
    \E r \in {WorkingRun(s, ev)} :
        /\ WithinBounds(r.files)
        /\ WorkBounds(r.ss)
        /\ clients' = r.clients
        /\ files' = r.files
        /\ selected' = r.selected
        /\ autosave' = r.autosave
        /\ opts' = r.opts
        /\ today' = r.today
        /\ view' = r.view
        /\ session_state' = r.ss
        /\ profile' = [c \in DOMAIN profile |->
                          [profile[c] EXCEPT !.archived = c \in r.archived]]
        /\ editor' = LastRun(s, ev, r)
        /\ UNCHANGED <<other, dialog, disk>>

InitWork ==
    /\ clients = <<>>
    /\ files = [c \in {WorkIds[i] : i \in DOMAIN WorkIds} |-> NoFile]
    /\ selected = None
    /\ autosave = FALSE
    /\ today = Dec15
    /\ opts = DefaultOpts(today)
    /\ view = NoView
    /\ profile = [c \in {WorkIds[i] : i \in DOMAIN WorkIds} |-> NoProfile]
    /\ other = None
    /\ dialog = NoDialog
    /\ editor = NoEdit
    /\ disk = NoCall
    /\ session_state = NoState

\* The run st.rerun() starts, or any interaction that triggers nothing.
WorkRerun == Does(WorkSession, NoEvent)

\* TAB1: a valid registration; the ids come in the order of WorkIds.
WorkRegister ==
    /\ ~Pending
    /\ Len(clients) < Len(WorkIds)
    /\ Does(WorkSession, Event("register", WorkIds[Len(clients) + 1], "", <<>>, 0))

\* TAB2: the user picks another client in the selectbox.
WorkSelect ==
    \E c \in DOMAIN files :
        /\ ~Pending
        /\ InList(Visible(clients, Archived), c)
        /\ c # selected
        /\ Does(WorkSession, Event("select", c, "", <<>>, 0))

\* TAB2: the archive button of the selected client.
WorkArchive ==
    /\ ~Pending
    /\ selected # None
    /\ Does(WorkSession, Event("archive", None, "", <<>>, 0))

\* Sidebar: the autosave checkbox.
WorkToggle ==
    /\ ~Pending
    /\ Does([WorkSession EXCEPT !.autosave = ~autosave], NoEvent)

\* Rows the user types into a data editor: a padded category with a blank
\* date, a row left blank, a non-numeric and a blank (NaN) amount.
WorkRows ==
    { Row(<<" ", "A">>, Num(1), NoDate),
      _empty_row(Dec15),
      Row(<<"B">>, StrAmt, Dec01),
      Row(<<"B">>, NaN, Dec01) }

\* The section the user works in; the other three are rendered untouched.
WorkSections == {"income_details"}

\* The working table of the selected client as the last run left it.
Working(sec) == session_state[WorkingKey(sec, selected)]

\* The rows of table t that are not blank.
Typed(t) == SelectSeq(t, HasCategory)

\* TAB3: one edit in the data editor, a row added at the end or a row deleted.
WorkEdit ==
    \E sec \in WorkSections :
        /\ ~Pending
        /\ selected # None
        /\ \E t \in {Append(Working(sec), e) :
                          e \in {x \in WorkRows :
                                    /\ Len(Working(sec)) < MaxRows
                                    /\ HasCategory(x) => Len(Typed(Working(sec))) < MaxTyped}}
                    \cup {RemoveAt(Working(sec), i) : i \in DOMAIN Working(sec)} :
               Does(WorkSession, Event("edit", None, sec, t, 0))

\* TAB3: the quick input with a preset category or none chosen.
WorkQuickAdd ==
    \E sec \in WorkSections :
    \E cat \in {<<"A">>, <<>>} :
        /\ ~Pending
        /\ selected # None
        /\ Len(Working(sec)) < MaxRows
        /\ Len(Typed(Working(sec))) < MaxTyped
        /\ Does(WorkSession, Event("quickadd", None, sec, <<Row(cat, Num(1), today)>>, 0))

\* TAB3: the buttons "add blank rows", "reset" and "save" of a section.
WorkButton ==
    \E sec \in WorkSections :
    \E kind \in {"addblank", "reset", "save"} :
        /\ ~Pending
        /\ selected # None
        /\ Does(WorkSession, Event(kind, None, sec, <<>>, 0))

\* TAB3: the Etc save button.
WorkEtcSave ==
    \E n \in 0..MaxEtc :
        /\ ~Pending
        /\ selected # None
        /\ Does(WorkSession, Event("etc", None, "", <<>>, n))

\* Several clients, the first section: a row from the quick input in an empty
\* table, the save button, the archive button and the selectbox.
SwitchInput ==
    /\ WorkQuickAdd \/ WorkButton
    /\ editor'.sec = "income_details"
    /\ editor'.kind \in {"quickadd", "save"}
    /\ editor'.kind = "quickadd" => Working("income_details") = <<>>

NextSwitch ==
    \/ WorkRerun
    \/ WorkRegister
    \/ WorkSelect
    \/ WorkArchive
    \/ SwitchInput

SpecSwitch == InitWork /\ [][NextSwitch]_vars

\* One client, every input of TAB3 and the autosave checkbox.
FirstClient == WorkRegister /\ clients = <<>>

NextAuto ==
    \/ WorkRerun
    \/ FirstClient
    \/ WorkToggle
    \/ WorkEdit
    \/ WorkQuickAdd
    \/ WorkButton

SpecAuto == InitWork /\ [][NextAuto]_vars

\* ------------------------------------------------------------------ properties
\* The sum of f over the index set I, taken in no particular order.
RECURSIVE SumOver(_, _)
SumOver(f, I) ==
    IF I = {} THEN 0
    ELSE LET i == CHOOSE j \in I : TRUE IN f[i] + SumOver(f, I \ {i})

\* What a row adds to a total: its amount, nothing when it has no number.
AmountValue(r) == IF IsNum(r.amount) THEN r.amount.v ELSE 0

\* The total of rows whose amounts are numbers or absent; NaN when a NaN is
\* among them.
ExpectedSum(rows) ==
    IF \E i \in DOMAIN rows : rows[i].amount.t = "nan" THEN NaN
    ELSE Num(SumOver([i \in DOMAIN rows |-> AmountValue(rows[i])], DOMAIN rows))

\* The book of the selected client as stored.
StoredBook ==
    IF selected = None THEN _empty_finance
    ELSE IF files[selected] = NoFile THEN _empty_finance ELSE files[selected]

\* The three summaries on screen, each with the rows it sums: the top summary
\* and the quick summary over the whole book, the mix over the filtered rows.
SummaryPlaces ==
    { [sm |-> view.top, inc |-> StoredBook.income_details, exp |-> StoredBook.expense_details],
      [sm |-> view.quick, inc |-> StoredBook.income_details, exp |-> StoredBook.expense_details],
      [sm |-> view.tab4.mixsum, inc |-> view.tab4.inc_rows, exp |-> view.tab4.exp_rows] }

\* C1: at each of the three places a summary is shown, Income and Expense are
\* the sums of the amounts of the rows considered and Remaining is
\* max(Income - Expense, 0): the difference when it is positive, 0 when
\* Expense is at least Income, and never a negative number.
C1_RemainingIsFlooredDifference ==
    \A p \in SummaryPlaces :
        p.sm.st = "shown" =>
            /\ p.sm.income = ExpectedSum(p.inc)
            /\ p.sm.expense = ExpectedSum(p.exp)
            /\ ~FLt(p.sm.remaining, Num(0))
            /\ (IsNum(p.sm.income) /\ IsNum(p.sm.expense)) =>
                   p.sm.remaining =
                       Num(IF p.sm.income.v > p.sm.expense.v
                           THEN p.sm.income.v - p.sm.expense.v ELSE 0)

\* All time Income exceeds Expense and Remaining is the difference; within the
\* month chosen Expense exceeds Income and Remaining is floored at 0.
C1_Witness ==
    /\ view.top.st = "shown" /\ view.quick = view.top
    /\ view.top.remaining = Num(1) /\ FGt(view.top.income, view.top.expense)
    /\ opts.period = "month"
    /\ view.tab4.mixsum.st = "shown"
    /\ FGt(view.tab4.mixsum.expense, view.tab4.mixsum.income)
    /\ view.tab4.mixsum.remaining = Num(0)

ZeroSummary == [NoSummary EXCEPT !.st = "shown"]

\* C2: a client's book is created on first access: once a client is selected
\* a book is stored for them, the book a step creates is the empty book (four
\* empty sequences, etc 0), and the summaries of that book show Income 0,
\* Expense 0, Remaining 0 and Etc 0.
C2_BookCreatedEmptyOnFirstAccess ==
    [][\A c \in ClientIds :
           /\ selected' = c => files'[c] # NoFile
           /\ (files[c] = NoFile /\ files'[c] # NoFile) =>
                  /\ files'[c] = _empty_finance
                  /\ view'.top = ZeroSummary
                  /\ view'.quick = ZeroSummary
                  /\ view'.tab4.mixsum = ZeroSummary]_vars

C2_Witness ==
    /\ selected = "c1"
    /\ files["c1"] = _empty_finance
    /\ view.top = ZeroSummary /\ view.quick = ZeroSummary
    /\ view.tab4.mixsum = ZeroSummary

\* C3: every stored row of every section has an amount that is not negative
\* and a category that is not empty after trimming, and the stored etc is a
\* number >= 0.
C3_PersistedRowsValid ==
    \A c \in ClientIds :
        files[c] # NoFile =>
            /\ \A sec \in Sections : \A i \in DOMAIN files[c][sec] :
                   /\ files[c][sec][i].amount.t \in {"num", "nan"}
                   /\ ~FLt(files[c][sec][i].amount, Num(0))
                   /\ Strip(files[c][sec][i].category) # <<>>
            /\ IsNum(files[c].etc) /\ files[c].etc.v >= 0

\* A row saved from the editor row with a padded category and a blank date,
\* and an Etc saved above 0.
C3_Witness ==
    /\ selected = "c1"
    /\ files["c1"] # NoFile
    /\ \E i \in DOMAIN StoredBook.income_details :
           StoredBook.income_details[i] = Row(<<"A">>, Num(1), Dec15)
    /\ StoredBook.etc = Num(1)

\* The assets and liabilities blocks the last run rendered.
CategoryBlocks == {view.tab4.assets, view.tab4.liabilities}

PieCalls ==
    (IF view.tab4.mixsum.st = "shown"
     THEN {[entries |-> MixEntries(view.tab4.mixsum), chart |-> view.tab4.mix]}
     ELSE {})
    \cup {[entries |-> b.totals, chart |-> b.chart] :
          b \in {x \in CategoryBlocks : x.totals # <<>>}}

Occurrences(seq, l) == Cardinality({i \in DOMAIN seq : seq[i].label = l})

\* C5: for every labeled value set passed to the pie drawing, an entry whose
\* value is not above 0 has no wedge and no legend line, and an entry whose
\* value is above 0 has exactly one wedge and exactly one legend line, both
\* with its value; nothing else is drawn.
C5_OnlyPositiveEntriesDrawn ==
    \A p \in PieCalls :
        /\ \A i \in DOMAIN p.entries :
               IF FGt(p.entries[i].value, Num(0))
               THEN /\ Occurrences(p.chart.wedges, p.entries[i].label) = 1
                    /\ Occurrences(p.chart.legend, p.entries[i].label) = 1
               ELSE /\ Occurrences(p.chart.wedges, p.entries[i].label) = 0
                    /\ Occurrences(p.chart.legend, p.entries[i].label) = 0
        /\ \A drawn \in {p.chart.wedges, p.chart.legend} : \A k \in DOMAIN drawn :
               \E i \in DOMAIN p.entries : p.entries[i] = drawn[k]

\* Assets A: 1 and B: 0 draw the single wedge and legend line of A.
C5_Witness ==
    /\ view.tab4.assets.totals = <<Entry(<<"A">>, Num(1)), Entry(<<"B">>, Num(0))>>
    /\ view.tab4.assets.chart.kind = "pie"
    /\ view.tab4.assets.chart.wedges = <<Entry(<<"A">>, Num(1))>>
    /\ view.tab4.assets.chart.legend = <<Entry(<<"A">>, Num(1))>>

\* The charts the last run reached, with the values each had to show (none
\* for a block whose rows are all filtered out).
ChartsReached ==
    PieCalls
    \cup {[entries |-> <<>>, chart |-> b.chart] :
          b \in {x \in CategoryBlocks : x.rows = <<>> /\ x.chart.kind # "none"}}

\* C6: when the values to chart are empty or none of them is above 0, nothing
\* raises and the "no data" placeholder is rendered instead of an empty chart.
C6_NoDataShowsPlaceholder ==
    \A p \in ChartsReached :
        (\A i \in DOMAIN p.entries : ~FGt(p.entries[i].value, Num(0))) =>
            p.chart.kind = "info"

\* C7: whatever amounts the stored rows hold (absent, null, not a number), no
\* summary and no chart raises, and such an amount adds 0 to the sums.
C7_DegenerateAmountsNeverRaise ==
    /\ view.tab4.st # "raise"
    /\ \A p \in SummaryPlaces :
           /\ p.sm.st # "raise"
           /\ p.sm.st = "shown" =>
                  /\ p.sm.income =
                         Num(SumOver([i \in DOMAIN p.inc |-> AmountValue(p.inc[i])],
                                     DOMAIN p.inc))
                  /\ p.sm.expense =
                         Num(SumOver([i \in DOMAIN p.exp |-> AmountValue(p.exp[i])],
                                     DOMAIN p.exp))

\* Whether the row belongs to the period chosen in the sidebar.
InPeriod(r) ==
    CASE opts.period = "all" -> TRUE
      [] opts.period = "month" ->
            r.date.t = "date" /\ r.date.y = today.y /\ r.date.m = today.m
      [] opts.period = "year" ->
            r.date.t = "date" /\ r.date.y = today.y
      [] opts.period = "custom" ->
            r.date.t = "date" /\ DateLe(opts.cstart, r.date) /\ DateLe(r.date, opts.cend)

\* C8: the rows TAB4 works on are the stored rows of the period, in stored
\* order: all rows under "all"; under a filter only dated rows with
\* start <= date < end, where "this month" ends with the first day of the next
\* month (January of the next year after December), "this year" with the next
\* January 1, and a custom range includes its end day.
C8_PeriodFilter ==
    view.tab4.st # "none" =>
        /\ view.tab4.inc_rows = SelectSeq(StoredBook.income_details, InPeriod)
        /\ view.tab4.exp_rows = SelectSeq(StoredBook.expense_details, InPeriod)
        /\ view.tab4.assets.chart.kind # "none" =>
               view.tab4.assets.rows = SelectSeq(StoredBook.assets, InPeriod)
        /\ view.tab4.liabilities.chart.kind # "none" =>
               view.tab4.liabilities.rows = SelectSeq(StoredBook.liabilities, InPeriod)

\* "This month" in December keeps the row of December 31 and drops the row of
\* January 1 of the next year.
C8_Witness ==
    /\ opts.period = "month" /\ today.m = 12
    /\ StoredBook.income_details =
           <<Row(<<"B">>, Num(2), Dec31), Row(<<"A">>, Num(2), Jan01)>>
    /\ view.tab4.inc_rows = <<Row(<<"B">>, Num(2), Dec31)>>

\* C9: the wedges of every pie are in descending order of value.
C9_WedgesDescending ==
    \A p \in PieCalls :
        \A k \in 1..(Len(p.chart.wedges) - 1) :
            ~FLt(p.chart.wedges[k].value, p.chart.wedges[k + 1].value)

PositionOf(entries, l) == CHOOSE i \in DOMAIN entries : entries[i].label = l

\* C10: the legend of every pie lists the drawn entries by descending value,
\* entries of equal value in the order they were passed in.
C10_LegendSortedStable ==
    \A p \in PieCalls :
        p.chart.kind = "pie" =>
            /\ Len(p.chart.legend) = Len(p.chart.wedges)
            /\ {p.chart.legend[k] : k \in DOMAIN p.chart.legend}
                   = {p.chart.wedges[k] : k \in DOMAIN p.chart.wedges}
            /\ \A j, k \in DOMAIN p.chart.legend :
                   j < k =>
                       \/ FGt(p.chart.legend[j].value, p.chart.legend[k].value)
                       \/ /\ p.chart.legend[j].value = p.chart.legend[k].value
                          /\ PositionOf(p.entries, p.chart.legend[j].label)
                                 < PositionOf(p.entries, p.chart.legend[k].label)

\* Income 1, Expense 2, Remaining 0, Etc 1: the legend reads Expense, Income,
\* Etc, the two entries of value 1 in the order passed.
C10_Witness ==
    /\ view.tab4.mix.kind = "pie"
    /\ view.tab4.mix.legend =
           <<Entry(<<"Expense">>, Num(2)), Entry(<<"Income">>, Num(1)),
             Entry(<<"Etc">>, Num(1))>>

Abs(x) == IF x < 0 THEN 0 - x ELSE x

\* C11: in every pie the percentage of a wedge is 100 * amount / total with
\* total the sum of the amounts drawn (the positive ones), taken from the
\* unrounded fraction, so the unrounded percentages add up to 100; the text of
\* each wedge is that percentage rounded to one decimal (off by at most 0.05),
\* so the rounded percentages add up to 100.0 within 0.05 per wedge.
C11_PercentagesFromUnroundedFraction ==
    \A p \in PieCalls :
        p.chart.kind = "pie" =>
            LET w == p.chart.wedges
                pc == p.chart.pcts
                total == SumOver([k \in DOMAIN w |-> w[k].value.v], DOMAIN w)
            IN  /\ DOMAIN pc = DOMAIN w
                /\ total > 0
                /\ \A k \in DOMAIN w :
                       /\ pc[k].den = total
                       /\ pc[k].num = 100 * w[k].value.v
                       /\ 2 * Abs(10 * pc[k].num - pc[k].tenths * pc[k].den) <= pc[k].den
                /\ SumOver([k \in DOMAIN w |-> pc[k].num], DOMAIN w) = 100 * total
                /\ 2 * Abs(SumOver([k \in DOMAIN w |-> pc[k].tenths], DOMAIN w) - 1000)
                       <= Len(w)

\* Income 3, Expense 1, Remaining 2: 50.0, 16.7 and 33.3 percent.
C11_Witness ==
    /\ view.tab4.mix.kind = "pie"
    /\ view.tab4.mix.wedges =
           <<Entry(<<"Income">>, Num(3)), Entry(<<"Expense">>, Num(1)),
             Entry(<<"Remaining">>, Num(2))>>
    /\ [k \in 1..3 |-> view.tab4.mix.pcts[k].tenths] = <<500, 167, 333>>

\* C12: in the Income / Expense mix, whenever Etc = 0 and Income > Expense > 0
\* the chart has exactly the three wedges Income, Expense, Remaining in that
\* order (Etc is left out), Income's share is exactly 50% and Expense and
\* Remaining share the other 50%; when Income = 2 * Expense the percentages
\* read 50.0, 25.0, 25.0.
C12_MixHalfIncome ==
    LET sm == view.tab4.mixsum
        ch == view.tab4.mix
    IN  (/\ sm.st = "shown"
         /\ sm.etc = Num(0)
         /\ FGt(sm.income, sm.expense) /\ FGt(sm.expense, Num(0))) =>
            /\ ch.kind = "pie"
            /\ ch.wedges =
                   <<Entry(<<"Income">>, sm.income), Entry(<<"Expense">>, sm.expense),
                     Entry(<<"Remaining">>, Num(sm.income.v - sm.expense.v))>>
            /\ Len(ch.pcts) = 3
            /\ ch.pcts[1].num = 50 * ch.pcts[1].den
            /\ ch.pcts[2].num * ch.pcts[3].den + ch.pcts[3].num * ch.pcts[2].den
                   = 50 * ch.pcts[2].den * ch.pcts[3].den
            /\ sm.income.v = 2 * sm.expense.v =>
                   [k \in 1..3 |-> ch.pcts[k].tenths] = <<500, 250, 250>>

\* Income 4, Expense 2, Remaining 2, Etc 0: three wedges of 50.0, 25.0, 25.0.
C12_Witness ==
    /\ view.tab4.mixsum.etc = Num(0)
    /\ view.tab4.mix.kind = "pie"
    /\ view.tab4.mix.wedges =
           <<Entry(<<"Income">>, Num(4)), Entry(<<"Expense">>, Num(2)),
             Entry(<<"Remaining">>, Num(2))>>
    /\ [k \in 1..3 |-> view.tab4.mix.pcts[k].tenths] = <<500, 250, 250>>

C15_RenderIsPureRead ==
    [][(Select \/ SetPeriod \/ ToggleAutosave \/ Refresh)
           => (clients' = clients /\ files' = files)]_vars

\* C16: the persisted etc of a book changes in no step but an Etc save, so a
\* step that saves a line-item section, by the button or by autosave, leaves
\* it as it was; a step that saves Etc leaves the four persisted line-item
\* sequences as they were (no step that changes one of them is an Etc save);
\* and the Etc the mix chart is drawn from is the stored etc, whatever period
\* filter is active.
C16_EtcIndependentOfLineItems ==
    [][/\ \A c \in DOMAIN files :
              (files[c] # NoFile /\ files'[c] # NoFile) =>
                  /\ files'[c].etc # files[c].etc => EtcSave
                  /\ (\E sec \in Sections : files'[c][sec] # files[c][sec]) => ~EtcSave
       /\ view'.tab4.st = "shown" => view'.tab4.mixsum.etc = files'[selected'].etc]_vars

\* An Etc of 1 is stored beside a line item and drawn under the month filter.
C16_Witness ==
    /\ selected # None
    /\ files[selected] # NoFile
    /\ files[selected].etc = Num(1)
    /\ TotalRows(files[selected]) = 1
    /\ opts.period = "month"
    /\ view.tab4.st = "shown"
    /\ view.tab4.mixsum.etc = Num(1)

\* C17: once the user has gone through the confirmation of the profile form
\* (pressed delete, ticked the checkbox, pressed delete with the box ticked),
\* delete_client_and_data has run: the client is not in the list, its book
\* does not exist and no client is selected.
C17_DeleteThroughUI ==
    dialog.step = 3 =>
        /\ selected = None
        /\ ~InList(clients, dialog.client)
        /\ files[dialog.client] = NoFile

\* A row with a non-empty category whose amount is negative or not a number.
Offending(r) ==
    /\ \E i \in DOMAIN r.category : r.category[i] # Space
    /\ r.amount.t = "str" \/ (r.amount.t = "num" /\ r.amount.v < 0)

OffendingRows(t) == {i \in DOMAIN t : Offending(t[i])}

\* The amounts of the rows of t that have a category.
NamedAmounts(t) ==
    LET named == SelectSeq(t, LAMBDA r : \E i \in DOMAIN r.category : r.category[i] # Space)
    IN  [i \in DOMAIN named |-> named[i].amount]

\* C18: when the table the user edited (with autosave on) or saved by the
\* button holds a row with a category and a negative or non-numeric amount,
\* the run writes nothing (the persisted books are unchanged) and a message
\* for that section listing exactly the offending rows is on screen; when it
\* holds no such row, the section is persisted with the amounts of its rows
\* that have a category, and no message is shown.
C18_SaveHeldBackOnError ==
    [][editor'.kind \in {"edit", "save"} =>
          IF OffendingRows(editor'.table) # {}
          THEN /\ files' = files
               /\ \E w \in editor'.warn :
                      w.sec = editor'.sec /\ w.rows = OffendingRows(editor'.table)
          ELSE /\ editor'.warn = {}
               /\ LET stored == files'[selected'][editor'.sec]
                  IN  [i \in DOMAIN stored |-> stored[i].amount]
                          = NamedAmounts(editor'.table)]_vars

\* The save button was pressed on a table holding a stored row and an
\* offending one: the error list names row 2 and the book still has one row.
C18_Witness ==
    /\ editor.kind = "save"
    /\ ~autosave
    /\ Len(editor.table) = 2
    /\ OffendingRows(editor.table) = {2}
    /\ editor.warn = {[how |-> "save", sec |-> editor.sec, rows |-> {2}]}
    /\ Len(files[selected][editor.sec]) = 1

\* C19 as stated: when the call has ended and any of its steps failed (the
\* backup, the temporary file, the replace), path holds its previous content.
C19_AnyFailureKeepsPrevious ==
    (disk.pc = "done" /\ disk.failed # {}) => disk.fs.path = disk.old

\* C19, amended: at every point of the call and at its end, path holds the
\* complete previous content (or is still missing) or the complete new text;
\* when creating or writing the temporary file or the replace failed, path
\* holds its previous content and the error is shown; otherwise, also after a
\* failed backup, path holds the new text; and the call never ends with an
\* exception in flight.
C19_AllOrNothing ==
    disk.pc # "idle" =>
        /\ disk.fs.path \in {disk.old, File(disk.text)}
        /\ disk.pc = "done" =>
               /\ ~disk.exc
               /\ IF disk.failed \cap {"tmp", "write", "replace"} # {}
                  THEN disk.fs.path = disk.old /\ disk.shown
                  ELSE disk.fs.path = File(disk.text)

\* The write failed half way: the temporary file holds one of two
\* characters, and path still holds its different previous content.
C19_Witness ==
    /\ disk.pc = "done"
    /\ disk.failed = {"write"}
    /\ Len(disk.text) = 2
    /\ Len(disk.fs.tmp.data) = 1
    /\ disk.old.exists
    /\ disk.old.data # disk.text
    /\ disk.fs.path = disk.old

\* Emails equal once trimmed and compared without case; phones with the same
\* digits.
SameEmail(a, b) == Lower(Strip(a)) = Lower(Strip(b))
SamePhone(a, b) == SelectSeq(a, IsDigit) = SelectSeq(b, IsDigit)

\* A listed client other than c already has this email or these phone digits.
TakenByOther(email, phone, c) ==
    \E d \in DOMAIN profile :
        /\ d # c
        /\ InList(clients, d)
        /\ SameEmail(profile[d].email, email) \/ SamePhone(profile[d].phone, phone)

\* No two distinct clients of the list, archived or not, share an email or
\* the digits of a phone.
NoDuplicates ==
    \A c, d \in DOMAIN profile :
        (c # d /\ InList(clients, c) /\ InList(clients, d)) =>
            /\ ~SameEmail(profile[c].email, profile[d].email)
            /\ ~SamePhone(profile[c].phone, profile[d].phone)

\* Saving the profile form with a valid email and phone that no other client
\* has, the client's own included, stores them.
OwnFieldsAccepted ==
    \A email \in Emails : \A phone \in Phones :
        (/\ selected # None
         /\ InList(clients, selected)
         /\ validate_email(email)
         /\ validate_phone10(phone)
         /\ ~TakenByOther(email, phone, selected))
            => ENABLED (/\ EditWith(email, phone)
                        /\ profile'[selected].email = Strip(email)
                        /\ SamePhone(profile'[selected].phone, phone))

\* C20: with "ignore duplicates" never ticked, in every reachable state no
\* two distinct clients of the list, archived or not, share an email
\* (trimmed, without case) or the digits of a phone; an edit that keeps the
\* client's own email or phone, with values no other client has, is stored;
\* and a step that changes the list or a profile is no registration and no
\* edit whose email or phone another client has: such a submit leaves the
\* list unchanged.
C20_NoDuplicateClients ==
    /\ [](NoDuplicates /\ OwnFieldsAccepted)
    /\ [][(clients' # clients \/ profile' # profile) =>
              /\ \A c \in DOMAIN files : \A email \in Emails : \A phone \in Phones :
                     TakenByOther(email, phone, None) => ~RegisterWith(c, email, phone)
              /\ \A email \in Emails : \A phone \in Phones :
                     TakenByOther(email, phone, selected) => ~EditWith(email, phone)]_vars

\* Two clients are listed, one of them archived, and the selected one kept
\* its email under another case while its phone was changed.
C20_Witness ==
    /\ Len(clients) = 2
    /\ Archived # {}
    /\ selected # None
    /\ profile[selected].email = <<"A", "@", "b", ".", "a", "a">>
    /\ profile[selected].phone =
           <<"2", "2", "2", "-", "2", "2", "2", "-", "2", "2", "2", "2">>

\* The entries of the session a client's working copies and transient inputs
\* are kept under: the working tables, the data editors, the quick-input
\* fields, the preset selections and the Etc input.
TransientKeys(c) ==
    {WorkingKey(sec, c) : sec \in Sections}
    \cup {WidgetKey(sec, n, c) :
              sec \in Sections,
              n \in {<<"editor">>, <<"presel">>, <<"quick", "cat">>, <<"quick", "desc">>,
                     <<"quick", "amt">>, <<"quick", "date">>}}
    \cup {EtcKey(c)}

\* The client a session key ends in.
KeyedBy(k) == k[Len(k)]

\* Only the selected client, and clients left by the archive button, have
\* working tables in the session.
WorkingOnlyWhereLeftOpen ==
    \A c \in DOMAIN files : \A sec \in Sections :
        WorkingKey(sec, c) \in DOMAIN session_state => c = selected \/ c \in Archived

\* C21: the run in which the selectbox changes the selected client from A to
\* B leaves no working table, editor, quick-input, preset or Etc entry keyed
\* by A in the session and sets the load marker of the profile form to None;
\* it writes nothing (books, client list and profiles are as before) and it
\* keeps every entry keyed by another client with its value.  A run that
\* renders TAB3 for a client without working tables builds them from the
\* client's persisted rows, and no client that can be selected again has
\* working tables left in the session.
C21_SwitchClearsWorkingCopies ==
    /\ [](WorkingOnlyWhereLeftOpen)
    /\ [][/\ (editor'.kind = "select" /\ selected # None /\ selected' # selected) =>
                 /\ DOMAIN session_state' \cap TransientKeys(selected) = {}
                 /\ session_state'[LoadedKey] = None
                 /\ files' = files
                 /\ clients' = clients
                 /\ profile' = profile
                 /\ \A k \in DOMAIN session_state :
                        (k # LoadedKey /\ KeyedBy(k) # selected) =>
                            /\ k \in DOMAIN session_state'
                            /\ session_state'[k] = session_state[k]
          /\ (selected' # None /\ ~editor'.rerun) =>
                 \A sec \in Sections :
                     WorkingKey(sec, selected') \notin DOMAIN session_state =>
                         session_state'[WorkingKey(sec, selected')]
                             = _df_from_rows(files'[selected'][sec])]_vars

\* The selectbox has just changed the selection from c1, whose table held a
\* row that was never saved, to c2, which was never shown before; the
\* archived c3 still has its working table.
C21_Witness ==
    /\ editor.kind = "select"
    /\ editor.rerun
    /\ selected = "c2"
    /\ \A k \in DOMAIN session_state : k # LoadedKey => KeyedBy(k) # "c2"
    /\ WidgetKey("income_details", <<"dupidx">>, "c1") \in DOMAIN session_state
    /\ files["c1"].income_details = <<>>
    /\ "c3" \in Archived
    /\ WorkingKey("income_details", "c3") \in DOMAIN session_state
    /\ Len(session_state[WorkingKey("income_details", "c3")]) = 1

\* Cleaning the working table of section sec of client c yields the stored
\* rows of that section and no error.
Converged(ss, fs, c, sec, t) ==
    /\ c # None
    /\ WorkingKey(sec, c) \in DOMAIN ss
    /\ fs[c] # NoFile
    /\ \E cv \in {_clean_and_validate_df(ss[WorkingKey(sec, c)], t)} :
           cv.rows = fs[c][sec] /\ ~cv.errs

\* Stored rows, loaded into a table and cleaned on any day, are the stored
\* rows again, without errors.
CleaningIdempotent ==
    \A c \in DOMAIN files : \A sec \in Sections : \A t \in {Dec15, Jan01} :
        files[c] # NoFile =>
            \E cv \in {_clean_and_validate_df(_df_from_rows(files[c][sec]), t)} :
                /\ cv.rows = files[c][sec]
                /\ ~cv.errs
                /\ _rows_equal(cv.rows, files[c][sec])

\* C22: rows saved by the program, reloaded and cleaned again are equal rows
\* with no errors; a run that saved a section leaves a working table whose
\* cleaning yields the stored rows; and from there, with autosave on, a run
\* the user started without an edit, or by adding blank rows only (in the
\* editor or with the button), calls no save for that section and leaves the
\* section as it was.
C22_AutosaveConverges ==
    /\ [](CleaningIdempotent)
    /\ [][\A sec \in Sections :
              /\ sec \in editor'.wrote =>
                     Converged(session_state', files', selected', sec, today')
              /\ (/\ autosave'
                  /\ selected' = selected
                  /\ editor'.kind \in {"none", "blanks", "addblank"}
                  /\ Converged(session_state, files, selected, sec, today)) =>
                     /\ sec \notin editor'.wrote
                     /\ files'[selected][sec] = files[selected][sec]
                     /\ Converged(session_state', files', selected', sec, today')]_vars

\* With autosave on, a typed row was saved with its category trimmed and its
\* blank date filled; the user then added a blank row and nothing was saved.
C22_Witness ==
    /\ autosave
    /\ editor.kind = "blanks"
    /\ editor.wrote = {}
    /\ selected # None
    /\ files[selected].income_details = <<Row(<<"A">>, Num(1), Dec15)>>
    /\ Len(Working("income_details")) = 2

====
